---- MODULE Spec2Model ----
(***************************************************************************)
(* esticli: the application state machine of src/app (App, FilterState,    *)
(* SortState, DetailsState), the render/event loop of src/main.rs and the  *)
(* background fetch tasks of src/elasticsearch.                            *)
(*                                                                         *)
(* Strings that the code compares or inspects (index names, health) are    *)
(* sequences of byte codes, so that starts_with('.') and String::cmp are   *)
(* computed as the code computes them.  f64 rates are exact rationals      *)
(* <<numerator, denominator>>.  An Instant is represented by its age in    *)
(* clock ticks (Instant::elapsed), which Tick advances; fetch_start and     *)
(* last_fetch_duration, which only the footer displays, are opaque tokens. *)
(***************************************************************************)
EXTENDS Integers, Sequences, FiniteSets, TLC

---------------------------------------------------------------------------
(* Bounds of the model *)

\* longest filter text the user types
MaxFilterLen == 2
\* cap of the saturating scroll counters
MaxScroll == 1
\* ages of Instants are tracked up to this many ticks
MaxAge == 2
\* most details tasks in flight at once
MaxDetailsTasks == 2
MaxPolls == 2

(* Program constants *)

MAX_HISTORY_POINTS == 60
MIN_REFRESH_SECS == 1
MAX_REFRESH_SECS == 60
\* mpsc::channel(1)
CHANNEL_CAPACITY == 1

\* Option<T>: None is <<>>, Some(x) is <<x>>
None == <<>>
Some(x) == <<x>>

---------------------------------------------------------------------------
(* Strings as byte sequences *)

\* "a", "b", "c", ".s"
NameA == <<97>>
NameB == <<98>>
NameC == <<99>>
NameSys == <<46, 115>>
Names == {NameA, NameB, NameC, NameSys}

\* "green", "yellow"
Green == <<103, 114, 101, 101, 110>>
Yellow == <<121, 101, 108, 108, 111, 119>>

\* str::starts_with('.')
StartsWithDot(s) == Len(s) > 0 /\ s[1] = 46

\* String::cmp / Ord for str: lexicographic on bytes; "Less", "Equal", "Greater"
RECURSIVE StrCmp(_, _)
StrCmp(s, t) ==
    IF s = <<>> /\ t = <<>> THEN "Equal"
    ELSE IF s = <<>> THEN "Less"
    ELSE IF t = <<>> THEN "Greater"
    ELSE IF Head(s) < Head(t) THEN "Less"
    ELSE IF Head(s) > Head(t) THEN "Greater"
    ELSE StrCmp(Tail(s), Tail(t))

\* u64::cmp
NumCmp(a, b) == IF a < b THEN "Less" ELSE IF a > b THEN "Greater" ELSE "Equal"

\* Ordering::reverse
Reverse(o) == IF o = "Less" THEN "Greater" ELSE IF o = "Greater" THEN "Less" ELSE "Equal"

\* whether t occurs in s as a contiguous substring
IsSubstring(t, s) ==
    \E i \in 0..(Len(s) - Len(t)) : \A j \in 1..Len(t) : s[i + j] = t[j]

---------------------------------------------------------------------------
(* f64 as exact rationals <<n, d>>, d > 0, in lowest terms *)

RECURSIVE Gcd(_, _)
Gcd(a, b) == IF b = 0 THEN a ELSE Gcd(b, a % b)

Rat(n, d) == LET g == Gcd(n, d) IN IF n = 0 THEN <<0, 1>> ELSE <<n \div g, d \div g>>
RatZero == <<0, 1>>
RatAdd(x, y) == Rat(x[1] * y[2] + y[1] * x[2], x[2] * y[2])
RatDivInt(x, k) == Rat(x[1], x[2] * k)
\* f64::partial_cmp on finite values
RatCmp(x, y) == NumCmp(x[1] * y[2], y[1] * x[2])
\* `as u64` on a non-negative finite f64 truncates
RatToU64(x) == x[1] \div x[2]

RECURSIVE RatSum(_)
RatSum(s) == IF s = <<>> THEN RatZero ELSE RatAdd(Head(s), RatSum(Tail(s)))

---------------------------------------------------------------------------
(* Sequences *)

Range(s) == {s[i] : i \in DOMAIN s}

RemoveAt(s, i) == SubSeq(s, 1, i - 1) \o SubSeq(s, i + 1, Len(s))

\* all orderings of the elements of a finite set
RECURSIVE Perms(_)
Perms(S) ==
    IF S = {} THEN {<<>>}
    ELSE UNION {{<<x>> \o p : p \in Perms(S \ {x})} : x \in S}

---------------------------------------------------------------------------
(* State *)

VARIABLES
    app,            \* the App struct (src/app/mod.rs), a record of its fields
    fetch_chan,     \* poll channel: results sent and not yet received
    details_chan,   \* details channel: results sent and not yet received
    client,         \* EsClient behind Arc<Mutex<_>>: [previous_snapshot, locked]
    poll_tasks,     \* poll tasks spawned and not finished, each [st, res]
    details_tasks,  \* details tasks spawned and not finished, each [st, name, ...]
    pc,             \* position of run(): "start", "loop", "done"
    polls,          \* number of poll tasks spawned so far
    requested       \* index_name of the latest DetailsState::fetch call, if any

vars ==
    <<app, fetch_chan, details_chan, client, poll_tasks, details_tasks, pc, polls,
      requested>>

---------------------------------------------------------------------------
(* SortState (src/app/sort.rs, src/ui/types.rs) *)

SortColumns == {"Name", "DocCount", "Rate", "Size", "Health"}

SortColumnNext(c) ==
    CASE c = "Name" -> "DocCount"
      [] c = "DocCount" -> "Rate"
      [] c = "Rate" -> "Size"
      [] c = "Size" -> "Health"
      [] c = "Health" -> "Name"

\* a prev that stops at the first column
SortColumnPrevNoWrap(c) ==
    CASE c = "Name" -> "Name"
      [] c = "DocCount" -> "Name"
      [] c = "Rate" -> "DocCount"
      [] c = "Size" -> "Rate"
      [] c = "Health" -> "Size"

SortColumnPrev(c) ==
    CASE c = "Name" -> "Health"
      [] c = "DocCount" -> "Name"
      [] c = "Rate" -> "DocCount"
      [] c = "Size" -> "Rate"
      [] c = "Health" -> "Size"

SortOrderToggle(o) == IF o = "Ascending" THEN "Descending" ELSE "Ascending"

\* the closure given to sort_by
SortCompare(st, index_a, index_b) ==
    LET cmp ==
            CASE st.column = "Name" -> StrCmp(index_a.name, index_b.name)
              [] st.column = "DocCount" -> NumCmp(index_a.doc_count, index_b.doc_count)
              [] st.column = "Rate" -> RatCmp(index_a.rate_per_sec, index_b.rate_per_sec)
              [] st.column = "Size" -> NumCmp(index_a.size_bytes, index_b.size_bytes)
              [] st.column = "Health" -> StrCmp(index_a.health, index_b.health)
    IN IF st.order = "Ascending" THEN cmp ELSE Reverse(cmp)

\* an insertion that puts x before the elements it is Equal to
RECURSIVE SortInsertBeforeEqual(_, _, _)
SortInsertBeforeEqual(st, sorted, x) ==
    IF sorted = <<>> THEN <<x>>
    ELSE IF SortCompare(st, x, Head(sorted)) # "Greater" THEN <<x>> \o sorted
    ELSE <<Head(sorted)>> \o SortInsertBeforeEqual(st, Tail(sorted), x)

\* slice::sort_by is stable: x goes before the first element it is Less than
RECURSIVE SortInsert(_, _, _)
SortInsert(st, sorted, x) ==
    IF sorted = <<>> THEN <<x>>
    ELSE IF SortCompare(st, x, Head(sorted)) = "Less" THEN <<x>> \o sorted
    ELSE <<Head(sorted)>> \o SortInsert(st, Tail(sorted), x)

RECURSIVE SortFrom(_, _, _)
SortFrom(st, sorted, rest) ==
    IF rest = <<>> THEN sorted
    ELSE SortFrom(st, SortInsert(st, sorted, Head(rest)), Tail(rest))

\* SortState::sort
Sort(st, list) == SortFrom(st, <<>>, list)

---------------------------------------------------------------------------
(* FilterState (src/app/filter.rs) *)

\* the characters the user types into the filter input: 'a', 'q', '{'
FilterChars == {97, 113, 123}

\* compile_filter: the query language is the jaq crate's.  The model's
\* language: a text holding '{' does not compile; any other text selects the
\* items whose name contains it.
CompileFilter(text) ==
    IF \E i \in DOMAIN text : text[i] = 123
    THEN [ok |-> FALSE, err |-> "compile error"]
    ELSE [ok |-> TRUE, filter |-> text]

\* FilterState::default
FilterDefault == [active |-> FALSE, input |-> <<>>, error |-> None, compiled |-> None]

\* a recompile whose Err arm keeps the predicate compiled before
RecompileKeepingPredicate(f) ==
    IF f.input = <<>>
    THEN [f EXCEPT !.error = None, !.compiled = None]
    ELSE LET r == CompileFilter(f.input)
         IN IF r.ok
            THEN [f EXCEPT !.error = None, !.compiled = Some(r.filter)]
            ELSE [f EXCEPT !.error = Some(r.err)]

\* FilterState::recompile
Recompile(f) ==
    IF f.input = <<>>
    THEN [f EXCEPT !.error = None, !.compiled = None]
    ELSE LET r == CompileFilter(f.input)
         IN IF r.ok
            THEN [f EXCEPT !.error = None, !.compiled = Some(r.filter)]
            ELSE [f EXCEPT !.error = Some(r.err), !.compiled = None]

\* FilterState::is_match
IsMatch(f, item) ==
    IF f.compiled = None THEN TRUE
    ELSE IsSubstring(f.compiled[1], item.name)

\* an exit that leaves the filter editor active
FilterExitStaying(f) == f

\* a clear that resets everything but the text
FilterClearKeepingText(f) == [f EXCEPT !.error = None, !.compiled = None, !.active = FALSE]

\* FilterState::enter, exit, clear
FilterEnter(f) == [f EXCEPT !.active = TRUE]
FilterExit(f) == [f EXCEPT !.active = FALSE]
FilterClear(f) == [f EXCEPT !.input = <<>>, !.error = None, !.compiled = None, !.active = FALSE]

---------------------------------------------------------------------------
(* View (src/app/mod.rs) *)

\* a filtered_indices whose closure lacks the excluded_indices test
FilteredIndicesKeepingExcluded(a) ==
    SelectSeq(a.indices, LAMBDA i :
        IF ~a.show_system_indices /\ StartsWithDot(i.name) THEN FALSE
        ELSE IsMatch(a.filter, i))

\* App::filtered_indices
FilteredIndices(a) ==
    SelectSeq(a.indices, LAMBDA i :
        IF i.name \in a.excluded_indices THEN FALSE
        ELSE IF ~a.show_system_indices /\ StartsWithDot(i.name) THEN FALSE
        ELSE IsMatch(a.filter, i))

\* a total_cluster_rate whose closure lacks the excluded_indices test
TotalClusterRateCountingExcluded(a) ==
    LET kept == SelectSeq(a.indices, LAMBDA i :
                    IF ~a.show_system_indices /\ StartsWithDot(i.name) THEN FALSE
                    ELSE IsMatch(a.filter, i))
    IN RatSum([k \in DOMAIN kept |-> kept[k].rate_per_sec])

\* a total_cluster_rate whose closure lacks the show_system_indices test
TotalClusterRateCountingSystem(a) ==
    LET kept == SelectSeq(a.indices, LAMBDA i :
                    IF i.name \in a.excluded_indices THEN FALSE
                    ELSE IsMatch(a.filter, i))
    IN RatSum([k \in DOMAIN kept |-> kept[k].rate_per_sec])

\* App::total_cluster_rate
TotalClusterRate(a) ==
    LET kept == SelectSeq(a.indices, LAMBDA i :
                    IF i.name \in a.excluded_indices THEN FALSE
                    ELSE IF ~a.show_system_indices /\ StartsWithDot(i.name) THEN FALSE
                    ELSE IsMatch(a.filter, i))
    IN RatSum([k \in DOMAIN kept |-> kept[k].rate_per_sec])

---------------------------------------------------------------------------
(* Construction (App::new, DetailsState::new, EsClient::new) *)

\* SortColumn and SortOrder #[default]
SortDefault == [column |-> "Rate", order |-> "Descending"]

\* DetailsState::new
DetailsNew == [show_popup |-> FALSE, data |-> None, loading |-> FALSE, error |-> None,
               scroll |-> 0]

\* ClusterHealth::default, by its status field
ClusterHealthDefault == ""

Max(x, y) == IF x >= y THEN x ELSE y
Min(x, y) == IF x <= y THEN x ELSE y

\* App::new; the display-only fields spinner_frame, colormap and es_url are left out
AppNew(refresh_secs, samples) ==
    [indices |-> <<>>,
     running |-> TRUE,
     error |-> None,
     loading |-> FALSE,
     refresh_interval |-> refresh_secs,
     last_refresh |-> None,
     rate_history |-> <<>>,
     fetch_start |-> None,
     last_fetch_duration |-> None,
     show_graph |-> TRUE,
     show_health |-> TRUE,
     show_indices |-> TRUE,
     show_system_indices |-> FALSE,
     paused |-> FALSE,
     selected_index |-> None,
     excluded_indices |-> {},
     show_help_popup |-> FALSE,
     help_scroll |-> 0,
     rate_samples |-> Max(samples, 1),
     cluster_health |-> ClusterHealthDefault,
     sort |-> SortDefault,
     filter |-> FilterDefault,
     details |-> DetailsNew,
     index_rate_history |-> [n \in Names |-> None]]

\* EsClient::new
ClientNew == [previous_snapshot |-> None, locked |-> FALSE]

InitWith(refreshChoices, sampleChoices) ==
    /\ \E r \in refreshChoices, n \in sampleChoices : app = AppNew(r, n)
    /\ fetch_chan = <<>>
    /\ details_chan = <<>>
    /\ client = ClientNew
    /\ poll_tasks = <<>>
    /\ details_tasks = <<>>
    /\ pc = "start"
    /\ polls = 0
    /\ requested = None

---------------------------------------------------------------------------
(* The monitored cluster: what the HTTP requests can answer *)

\* the per-index facts of a _stats entry other than the write counter
DocCountOf(n) == IF n = NameA THEN 30 ELSE IF n = NameB THEN 10 ELSE 20
SizeOf(n) == IF n = NameA THEN 10 ELSE IF n = NameB THEN 20 ELSE 30
HealthOf(n) == IF n = NameB THEN Yellow ELSE Green

\* IndexSnapshot of index n with write counter total
Snapshot(n, total) ==
    [doc_count |-> DocCountOf(n), index_total |-> total, size_bytes |-> SizeOf(n),
     health |-> HealthOf(n)]

\* the _stats responses that list one of the name sets in nameSets with write
\* counters in totals: maps from index name to IndexSnapshot
StatsResponses(nameSets, totals) ==
    UNION {{[n \in S |-> Snapshot(n, t[n])] : t \in [S -> totals]} : S \in nameSets}

---------------------------------------------------------------------------
(* fetch_index_rates, fetch_cluster_health (src/elasticsearch/stats.rs) *)

\* a rate without the test that the counter has not fallen
InstantRateOfAnyChange(prev, name, current) ==
    IF prev = None THEN RatZero
    ELSE LET elapsed == prev[1].age
             snap == prev[1].snapshot
         IN IF name \in DOMAIN snap /\ elapsed > 0
            THEN LET diff == current.index_total - snap[name].index_total
                 IN IF diff >= 0 THEN Rat(diff, elapsed) ELSE Rat(-diff, elapsed)
            ELSE RatZero

\* the rate of one index against the previous snapshot
InstantRate(prev, name, current) ==
    IF prev = None THEN RatZero
    ELSE LET elapsed == prev[1].age
             snap == prev[1].snapshot
         IN IF name \in DOMAIN snap
               /\ elapsed > 0 /\ current.index_total >= snap[name].index_total
            THEN Rat(current.index_total - snap[name].index_total, elapsed)
            ELSE RatZero

\* the Vec<IndexRate> built from current_snapshot, iterated in the order `order`
\* (HashMap iteration order is unspecified)
RatesOf(prev, current_snapshot, order) ==
    [k \in DOMAIN order |->
        LET name == order[k]
            current == current_snapshot[name]
        IN [name |-> name,
            doc_count |-> current.doc_count,
            rate_per_sec |-> InstantRate(prev, name, current),
            size_bytes |-> current.size_bytes,
            health |-> current.health]]

\* client.previous_snapshot = Some((now, current_snapshot))
StoreSnapshot(c, current_snapshot) ==
    [c EXCEPT !.previous_snapshot = Some([age |-> 0, snapshot |-> current_snapshot])]

---------------------------------------------------------------------------
(* Periodic poll (App::start_fetch, App::poll_fetch_result) *)

\* the errors the two requests of a poll task can return (EstiCliError::to_string)
RatesError == "rates request failed"
HealthError == "health request failed"
\* the statuses a _cluster/health response can carry
HealthResponses == {"green"}

\* a window that is never shortened
PushWindowUnbounded(hist, name, rate, samples) ==
    Append(IF hist[name] = None THEN <<>> ELSE hist[name][1], rate)

\* index_rate_history maps each name to None (no entry) or Some(window).
\* One iteration of the loop of update_indices_with_rates: the window of
\* index.name after the push, and the smoothed rate.
PushWindow(hist, name, rate, samples) ==
    LET history == IF hist[name] = None THEN <<>> ELSE hist[name][1]
        popped == IF Len(history) >= samples THEN Tail(history) ELSE history
    IN Append(popped, rate)

WindowMean(window, rate) ==
    IF window # <<>> THEN RatDivInt(RatSum(window), Len(window)) ELSE rate

\* App::update_indices_with_rates: [indices, hist] after the loop over list
RECURSIVE UpdateIndicesWithRates(_, _, _, _)
UpdateIndicesWithRates(done, rest, hist, samples) ==
    IF rest = <<>> THEN [indices |-> done, hist |-> hist]
    ELSE LET index == Head(rest)
             window == PushWindow(hist, index.name, index.rate_per_sec, samples)
             smoothed == [index EXCEPT !.rate_per_sec = WindowMean(window, index.rate_per_sec)]
         IN UpdateIndicesWithRates(Append(done, smoothed), Tail(rest),
                                   [hist EXCEPT ![index.name] = Some(window)], samples)

\* a retain that lets every window live
RetainAll(hist, names) == hist

\* index_rate_history.retain(|name, _| current_index_names.contains(name))
Retain(hist, names) == [n \in DOMAIN hist |-> IF n \in names THEN hist[n] ELSE None]

\* a push_back without the pop_front before it
PushHistoryUnbounded(history, total) == history \o <<total>>

\* rate_history after the bounded push_back
PushHistory(history, total) ==
    (IF Len(history) >= MAX_HISTORY_POINTS THEN Tail(history) ELSE history) \o <<total>>

\* an Ok arm without self.error = None
ApplyFetchOkKeepingError(a, result) ==
    LET upd == UpdateIndicesWithRates(<<>>, result.indices, a.index_rate_history,
                                      a.rate_samples)
        sorted == Sort(a.sort, upd.indices)
        a1 == [a EXCEPT !.indices = sorted,
                        !.cluster_health = result.health,
                        !.index_rate_history =
                            Retain(upd.hist, {sorted[k].name : k \in DOMAIN sorted})]
    IN [a1 EXCEPT !.rate_history = PushHistory(a.rate_history, RatToU64(TotalClusterRate(a1)))]

\* an Ok arm that also prunes excluded_indices to the names of the poll
ApplyFetchOkPruning(a, result) ==
    LET upd == UpdateIndicesWithRates(<<>>, result.indices, a.index_rate_history,
                                      a.rate_samples)
        sorted == Sort(a.sort, upd.indices)
        names == {sorted[k].name : k \in DOMAIN sorted}
        a1 == [a EXCEPT !.indices = sorted,
                        !.cluster_health = result.health,
                        !.error = None,
                        !.excluded_indices = @ \cap names,
                        !.index_rate_history = Retain(upd.hist, names)]
    IN [a1 EXCEPT !.rate_history = PushHistory(a.rate_history, RatToU64(TotalClusterRate(a1)))]

\* the Ok((indices, health)) arm of poll_fetch_result
ApplyFetchOk(a, result) ==
    LET upd == UpdateIndicesWithRates(<<>>, result.indices, a.index_rate_history,
                                      a.rate_samples)
        sorted == Sort(a.sort, upd.indices)
        a1 == [a EXCEPT !.indices = sorted,
                        !.cluster_health = result.health,
                        !.error = None,
                        !.index_rate_history =
                            Retain(upd.hist, {sorted[k].name : k \in DOMAIN sorted})]
    IN [a1 EXCEPT !.rate_history = PushHistory(a.rate_history, RatToU64(TotalClusterRate(a1)))]

\* an Err(e) arm that also drops the list
ApplyFetchErrClearing(a, result) == [a EXCEPT !.error = Some(result.err), !.indices = <<>>]

\* the Err(e) arm of poll_fetch_result
ApplyFetchErr(a, result) == [a EXCEPT !.error = Some(result.err)]

\* poll_fetch_result, the Ok(result) arm of try_recv
ReceiveFetch(a, result) ==
    LET a1 == [a EXCEPT !.loading = FALSE,
                        !.last_refresh = Some(0),
                        !.fetch_start = None,
                        !.last_fetch_duration =
                            IF a.fetch_start # None THEN Some("elapsed") ELSE @]
    IN IF result.ok THEN ApplyFetchOk(a1, result) ELSE ApplyFetchErr(a1, result)

\* poll_fetch_result, the TryRecvError::Disconnected arm
FetchDisconnected(a) ==
    [a EXCEPT !.loading = FALSE, !.error = Some("Fetch task disconnected")]

\* App keeps fetch_tx for its whole life and gives each task a clone: the
\* number of live Senders of the poll channel
FetchSenders == 1 + Len(poll_tasks)

\* a start_fetch that does not set loading
StartFetchAppNotLoading(a) ==
    IF a.loading THEN a
    ELSE [a EXCEPT !.fetch_start = Some("now")]

\* start_fetch: the state after the call
StartFetchApp(a) ==
    IF a.loading THEN a
    ELSE [a EXCEPT !.loading = TRUE, !.fetch_start = Some("now")]

\* a start_fetch without its `if self.loading { return; }`
StartFetchSpawnsAlways(a) == TRUE

\* start_fetch: whether the call spawns a task
StartFetchSpawns(a) == ~a.loading

\* a task as tokio::spawn leaves it
PollTaskNew == [st |-> "spawned", res |-> None]

\* App::start_fetch.  limit bounds the poll tasks the model explores: Some(n)
\* for at most n, counted in polls, or None for no bound
StartFetch(limit) ==
    /\ (limit # None /\ StartFetchSpawns(app)) => polls < limit[1]
    /\ app' = StartFetchApp(app)
    /\ poll_tasks' = IF StartFetchSpawns(app) THEN Append(poll_tasks, PollTaskNew)
                     ELSE poll_tasks
    /\ polls' = IF limit # None /\ StartFetchSpawns(app) THEN polls + 1 ELSE polls

\* a should_refresh that gives up once a fetch has failed
ShouldRefreshUnlessError(a) ==
    IF a.paused \/ a.error # None THEN FALSE
    ELSE IF a.last_refresh = None THEN TRUE
    ELSE a.last_refresh[1] >= a.refresh_interval

\* a should_refresh without its `if self.paused` test
ShouldRefreshWhilePaused(a) ==
    IF a.last_refresh = None THEN TRUE
    ELSE a.last_refresh[1] >= a.refresh_interval

\* App::should_refresh
ShouldRefresh(a) ==
    IF a.paused THEN FALSE
    ELSE IF a.last_refresh = None THEN TRUE
    ELSE a.last_refresh[1] >= a.refresh_interval

(* The poll task of start_fetch, one action per await *)

\* client.lock().await
PollTaskLock(i) ==
    /\ poll_tasks[i].st = "spawned"
    /\ ~client.locked
    /\ client' = [client EXCEPT !.locked = TRUE]
    /\ poll_tasks' = [poll_tasks EXCEPT ![i].st = "locked"]
    /\ UNCHANGED <<app, fetch_chan, details_chan, details_tasks, pc, polls, requested>>

\* client.fetch_index_rates().await, answered by an error or one of `responses`
PollTaskRates(i, responses) ==
    /\ poll_tasks[i].st = "locked"
    /\ \/ /\ poll_tasks' = [poll_tasks EXCEPT ![i].st = "rates_done",
                                              ![i].res = Some([ok |-> FALSE, err |-> RatesError])]
          /\ UNCHANGED client
       \/ \E stats \in responses : \E order \in Perms(DOMAIN stats) :
            /\ poll_tasks' =
                 [poll_tasks EXCEPT
                    ![i].st = "rates_done",
                    ![i].res = Some([ok |-> TRUE,
                                     rates |-> RatesOf(client.previous_snapshot, stats, order)])]
            /\ client' = StoreSnapshot(client, stats)
    /\ UNCHANGED <<app, fetch_chan, details_chan, details_tasks, pc, polls, requested>>

\* match (rates_res, health_res)
PollResult(rates_res, health_res) ==
    IF rates_res.ok /\ health_res.ok
    THEN [ok |-> TRUE, indices |-> rates_res.rates, health |-> health_res.health]
    ELSE IF ~rates_res.ok THEN [ok |-> FALSE, err |-> rates_res.err]
    ELSE [ok |-> FALSE, err |-> health_res.err]

\* client.fetch_cluster_health().await, then the guard is dropped
PollTaskHealth(i) ==
    /\ poll_tasks[i].st = "rates_done"
    /\ \E health_res \in {[ok |-> FALSE, err |-> HealthError]}
                         \cup {[ok |-> TRUE, health |-> h] : h \in HealthResponses} :
         poll_tasks' = [poll_tasks EXCEPT
                          ![i].st = "sending",
                          ![i].res = Some(PollResult(poll_tasks[i].res[1], health_res))]
    /\ client' = [client EXCEPT !.locked = FALSE]
    /\ UNCHANGED <<app, fetch_chan, details_chan, details_tasks, pc, polls, requested>>

\* tx.send(result).await: waits for a free slot of the channel, then the task ends
PollTaskSend(i) ==
    /\ poll_tasks[i].st = "sending"
    /\ Len(fetch_chan) < CHANNEL_CAPACITY
    /\ fetch_chan' = Append(fetch_chan, poll_tasks[i].res[1])
    /\ poll_tasks' = RemoveAt(poll_tasks, i)
    /\ UNCHANGED <<app, details_chan, client, details_tasks, pc, polls, requested>>

\* poll_fetch_result when try_recv returns no result: Disconnected if no
\* Sender is left, Empty otherwise
FetchNothing(a, senders) == IF senders = 0 THEN FetchDisconnected(a) ELSE a

\* a poll task that ends before tx.send, by a panic inside one of its
\* requests: its guard and its clone of tx are dropped
PollTaskPanic(i) ==
    /\ poll_tasks[i].st \in {"locked", "rates_done"}
    /\ poll_tasks' = RemoveAt(poll_tasks, i)
    /\ client' = [client EXCEPT !.locked = FALSE]
    /\ UNCHANGED <<app, fetch_chan, details_chan, details_tasks, pc, polls, requested>>

\* App::poll_fetch_result
PollFetchResult ==
    /\ pc = "loop" /\ app.running
    /\ IF fetch_chan # <<>>
       THEN /\ app' = ReceiveFetch(app, Head(fetch_chan))
            /\ fetch_chan' = Tail(fetch_chan)
       ELSE /\ app' = FetchNothing(app, FetchSenders)
            /\ UNCHANGED fetch_chan
    /\ UNCHANGED <<details_chan, client, poll_tasks, details_tasks, pc, polls, requested>>

---------------------------------------------------------------------------
(* fetch_index_details (src/elasticsearch/details.rs) *)

\* the seven requests joined by fetch_index_details
DetailRequests == {"settings", "ilm", "segments", "shards", "templates", "cat", "ds"}

\* what the cluster answers for index `name` when a request succeeds
SettingsOf(name) ==
    [provided_name |-> Some(name), creation_date |-> Some("2024-01-01 00:00:00 UTC"),
     number_of_shards |-> 2, number_of_replicas |-> 1, frozen |-> TRUE, partial |-> TRUE,
     uuid |-> Some("uuid"), lifecycle_name |-> Some("settings-policy")]
IlmOf(name) == [policy |-> Some("policy"), phase |-> Some("hot")]
SegmentsOf(name) == 5
ShardsOf(name) == <<[shard_id |-> 0, primary |-> TRUE, state |-> "STARTED", node |-> "node-1"]>>
TemplatesOf(name) == <<"template">>
CatOf(name) == [health |-> Some(HealthOf(name)), status |-> Some("open")]
DataStreamOf(name) == Some([name |-> "stream", backing_index_position |-> 1])

\* IndexSettingsResponse::default(): no entry for the index
SettingsDefault ==
    [provided_name |-> None, creation_date |-> None, number_of_shards |-> 0,
     number_of_replicas |-> 0, frozen |-> FALSE, partial |-> FALSE, uuid |-> None,
     lifecycle_name |-> None]

\* the six requests other than the settings request
AncillaryRequests == DetailRequests \ {"settings"}

\* a fetch_index_details in which one failed request empties every fact
FetchIndexDetailsAllOrNothing(index_name, doc_count, rate_per_sec, size_bytes, failed) ==
    LET none == failed # {}
        index_settings == IF none THEN SettingsDefault ELSE SettingsOf(index_name)
        ilm == IF none THEN [policy |-> None, phase |-> None] ELSE IlmOf(index_name)
        cat == IF none THEN [health |-> None, status |-> None] ELSE CatOf(index_name)
    IN [ok |-> TRUE,
        details |->
          [name |-> index_name,
           provided_name |-> index_settings.provided_name,
           creation_date |-> index_settings.creation_date,
           primary_shards |-> index_settings.number_of_shards,
           replica_shards |-> index_settings.number_of_replicas,
           is_frozen |-> index_settings.frozen,
           is_partial |-> index_settings.partial,
           ilm_policy |-> IF ilm.policy # None THEN ilm.policy
                          ELSE index_settings.lifecycle_name,
           ilm_phase |-> ilm.phase,
           total_segments |-> IF none THEN 0 ELSE SegmentsOf(index_name),
           shard_allocation |-> IF none THEN <<>> ELSE ShardsOf(index_name),
           templates |-> IF none THEN <<>> ELSE TemplatesOf(index_name),
           uuid |-> index_settings.uuid,
           health |-> cat.health,
           status |-> cat.status,
           doc_count |-> doc_count,
           rate_per_sec |-> rate_per_sec,
           size_bytes |-> size_bytes,
           data_stream |-> IF none THEN None ELSE DataStreamOf(index_name)]]

\* fetch_index_details when the requests in `failed` return Err and the others Ok
FetchIndexDetails(index_name, doc_count, rate_per_sec, size_bytes, failed) ==
    LET index_settings == IF "settings" \in failed THEN SettingsDefault
                          ELSE SettingsOf(index_name)
        ilm == IF "ilm" \in failed THEN [policy |-> None, phase |-> None]
               ELSE IlmOf(index_name)
        cat == IF "cat" \in failed THEN [health |-> None, status |-> None]
               ELSE CatOf(index_name)
    IN [ok |-> TRUE,
        details |->
          [name |-> index_name,
           provided_name |-> index_settings.provided_name,
           creation_date |-> index_settings.creation_date,
           primary_shards |-> index_settings.number_of_shards,
           replica_shards |-> index_settings.number_of_replicas,
           is_frozen |-> index_settings.frozen,
           is_partial |-> index_settings.partial,
           ilm_policy |-> IF ilm.policy # None THEN ilm.policy
                          ELSE index_settings.lifecycle_name,
           ilm_phase |-> ilm.phase,
           total_segments |-> IF "segments" \in failed THEN 0 ELSE SegmentsOf(index_name),
           shard_allocation |-> IF "shards" \in failed THEN <<>> ELSE ShardsOf(index_name),
           templates |-> IF "templates" \in failed THEN <<>> ELSE TemplatesOf(index_name),
           uuid |-> index_settings.uuid,
           health |-> cat.health,
           status |-> cat.status,
           doc_count |-> doc_count,
           rate_per_sec |-> rate_per_sec,
           size_bytes |-> size_bytes,
           data_stream |-> IF "ds" \in failed THEN None ELSE DataStreamOf(index_name)]]

---------------------------------------------------------------------------
(* DetailsState (src/app/details.rs) *)

\* DetailsState::fetch: the state after the call
DetailsFetch(d) ==
    [d EXCEPT !.show_popup = TRUE, !.loading = TRUE, !.error = None, !.data = None,
              !.scroll = 0]

\* the task DetailsState::fetch spawns
DetailsTaskNew(index) ==
    [st |-> "spawned", name |-> index.name, doc_count |-> index.doc_count,
     rate_per_sec |-> index.rate_per_sec, size_bytes |-> index.size_bytes, res |-> None]

\* DetailsState::close
DetailsClose(d) ==
    [d EXCEPT !.show_popup = FALSE, !.data = None, !.error = None, !.loading = FALSE,
              !.scroll = 0]

\* DetailsState::poll, the Ok(result) arm of try_recv
DetailsReceive(d, result) ==
    IF result.ok
    THEN [d EXCEPT !.loading = FALSE, !.data = Some(result.details), !.error = None]
    ELSE [d EXCEPT !.loading = FALSE, !.error = Some(result.err)]

\* DetailsState::poll, the TryRecvError::Disconnected arm
DetailsDisconnected(d) ==
    [d EXCEPT !.loading = FALSE, !.error = Some("Details fetch disconnected")]

\* DetailsState keeps tx and gives each task a clone
DetailsSenders == 1 + Len(details_tasks)

\* saturating_sub / saturating_add on usize
SaturatingSub(x, k) == IF x >= k THEN x - k ELSE 0

\* App::poll_details_result
PollDetailsResult ==
    /\ pc = "loop" /\ app.running
    /\ IF details_chan # <<>>
       THEN /\ app' = [app EXCEPT !.details = DetailsReceive(@, Head(details_chan))]
            /\ details_chan' = Tail(details_chan)
       ELSE /\ app' = IF DetailsSenders = 0
                      THEN [app EXCEPT !.details = DetailsDisconnected(@)] ELSE app
            /\ UNCHANGED details_chan
    /\ UNCHANGED <<fetch_chan, client, poll_tasks, details_tasks, pc, polls, requested>>

(* The task of DetailsState::fetch, one action per await *)

\* es_client.lock().await
DetailsTaskLock(i) ==
    /\ details_tasks[i].st = "spawned"
    /\ ~client.locked
    /\ client' = [client EXCEPT !.locked = TRUE]
    /\ details_tasks' = [details_tasks EXCEPT ![i].st = "locked"]
    /\ UNCHANGED <<app, fetch_chan, details_chan, poll_tasks, pc, polls, requested>>

\* client.fetch_index_details(..).await with the requests of one of failSets
\* failing, then the guard is dropped
DetailsTaskFetch(i, failSets) ==
    /\ details_tasks[i].st = "locked"
    /\ \E failed \in failSets :
         LET t == details_tasks[i]
             result == FetchIndexDetails(t.name, t.doc_count, t.rate_per_sec,
                                         t.size_bytes, failed)
             \* result.map_err(|e| e.to_string())
             details_result == result
         IN details_tasks' = [details_tasks EXCEPT ![i].st = "sending",
                                                   ![i].res = Some(details_result)]
    /\ client' = [client EXCEPT !.locked = FALSE]
    /\ UNCHANGED <<app, fetch_chan, details_chan, poll_tasks, pc, polls, requested>>

\* tx.send(details_result).await, then the task ends
DetailsTaskSend(i) ==
    /\ details_tasks[i].st = "sending"
    /\ Len(details_chan) < CHANNEL_CAPACITY
    /\ details_chan' = Append(details_chan, details_tasks[i].res[1])
    /\ details_tasks' = RemoveAt(details_tasks, i)
    /\ UNCHANGED <<app, fetch_chan, client, poll_tasks, pc, polls, requested>>

---------------------------------------------------------------------------
(* Action handlers of App (src/app/mod.rs) *)

Actions ==
    {"Quit", "SelectUp", "SelectDown", "SelectPageUp", "SelectPageDown", "SelectFirst",
     "SelectLast", "ToggleHelp", "HelpScrollUp", "HelpScrollDown", "TogglePause",
     "ToggleGraph", "ToggleIndices", "ToggleSystemIndices", "ToggleHealth", "ShowDetails",
     "ToggleExclude", "ClearExclusions", "IncreaseRefreshRate", "DecreaseRefreshRate",
     "NextColormap", "PrevColormap", "NextColumn", "PrevColumn", "ToggleSortOrder",
     "EnterFilterMode", "ExitFilterMode", "ClearFilter", "CloseDetails", "DetailsScrollUp",
     "DetailsScrollDown", "DetailsScrollPageUp", "DetailsScrollPageDown"}

\* move_selection without its `count == 0` early return
MoveSelectionNoEmptyCheck(a, delta) ==
    LET count == Len(FilteredIndices(a))
        next == IF a.selected_index # None
                THEN Min(Max(a.selected_index[1] + delta, 0), SaturatingSub(count, 1))
                ELSE IF delta > 0 THEN 0 ELSE SaturatingSub(count, 1)
    IN [a EXCEPT !.selected_index = Some(next)]

\* a move_selection that wraps around the ends of the view
MoveSelectionWrapping(a, delta) ==
    LET count == Len(FilteredIndices(a))
    IN IF count = 0 THEN [a EXCEPT !.selected_index = None]
       ELSE LET next == IF a.selected_index # None
                        THEN (a.selected_index[1] + delta) % count
                        ELSE IF delta > 0 THEN 0 ELSE count - 1
            IN [a EXCEPT !.selected_index = Some(next)]

\* App::move_selection
MoveSelection(a, delta) ==
    LET count == Len(FilteredIndices(a))
    IN IF count = 0 THEN [a EXCEPT !.selected_index = None]
       ELSE LET next == IF a.selected_index # None
                        THEN Min(Max(a.selected_index[1] + delta, 0), count - 1)
                        ELSE IF delta > 0 THEN 0 ELSE count - 1
            IN [a EXCEPT !.selected_index = Some(next)]

\* a select_first without its is_empty test
SelectFirstAlways(a) == [a EXCEPT !.selected_index = Some(0)]

\* App::select_first
SelectFirst(a) ==
    IF FilteredIndices(a) # <<>> THEN [a EXCEPT !.selected_index = Some(0)] ELSE a

\* App::select_last
SelectLast(a) ==
    LET count == Len(FilteredIndices(a))
    IN IF count > 0 THEN [a EXCEPT !.selected_index = Some(count - 1)] ELSE a

\* a toggle_system_indices that leaves the selection as it is
ToggleSystemIndicesKeepingSelection(a) ==
    [a EXCEPT !.show_system_indices = ~@]

\* App::toggle_system_indices
ToggleSystemIndices(a) ==
    [a EXCEPT !.show_system_indices = ~@, !.selected_index = None]

\* Vec::get with a 0-based index: None when out of range
Get(list, i) == IF i + 1 \in DOMAIN list THEN Some(list[i + 1]) ELSE None

\* a toggle_exclude_selected whose insert branch leaves the selection as it is
ToggleExcludeSelectedNoClamp(a) ==
    IF a.selected_index = None THEN a
    ELSE LET selected == a.selected_index[1]
             index == Get(FilteredIndices(a), selected)
         IN IF index = None THEN a
            ELSE LET name == index[1].name
                 IN IF name \in a.excluded_indices
                    THEN [a EXCEPT !.excluded_indices = @ \ {name}]
                    ELSE [a EXCEPT !.excluded_indices = @ \cup {name}]

\* App::toggle_exclude_selected
ToggleExcludeSelected(a) ==
    IF a.selected_index = None THEN a
    ELSE LET selected == a.selected_index[1]
             index == Get(FilteredIndices(a), selected)
         IN IF index = None THEN a
            ELSE LET name == index[1].name
                 IN IF name \in a.excluded_indices
                    THEN [a EXCEPT !.excluded_indices = @ \ {name}]
                    ELSE LET a1 == [a EXCEPT !.excluded_indices = @ \cup {name}]
                             new_count == Len(FilteredIndices(a1))
                         IN IF new_count = 0 THEN [a1 EXCEPT !.selected_index = None]
                            ELSE IF selected >= new_count
                            THEN [a1 EXCEPT !.selected_index = Some(new_count - 1)]
                            ELSE a1

\* App::clear_exclusions
ClearExclusions(a) == [a EXCEPT !.excluded_indices = {}]

\* App::toggle_help_popup
ToggleHelpPopup(a) ==
    [a EXCEPT !.show_help_popup = ~@,
              !.help_scroll = IF ~a.show_help_popup THEN 0 ELSE @]

\* App::increase_refresh_rate
IncreaseRefreshRate(a) ==
    IF a.refresh_interval > MIN_REFRESH_SECS
    THEN [a EXCEPT !.refresh_interval = @ - 1] ELSE a

\* App::decrease_refresh_rate
DecreaseRefreshRate(a) ==
    IF a.refresh_interval < MAX_REFRESH_SECS
    THEN [a EXCEPT !.refresh_interval = @ + 1] ELSE a

\* a resort that leaves the list as it is
ResortNothing(a) == a

\* App::resort
Resort(a) == [a EXCEPT !.indices = Sort(a.sort, @)]

\* a next_column that also moves the selection to the first row
NextColumnSelectingFirst(a) ==
    [Resort([a EXCEPT !.sort.column = SortColumnNext(@)]) EXCEPT !.selected_index = Some(0)]

\* App::next_column, prev_column, toggle_sort_order
NextColumn(a) == Resort([a EXCEPT !.sort.column = SortColumnNext(@)])
PrevColumn(a) == Resort([a EXCEPT !.sort.column = SortColumnPrev(@)])
ToggleSortOrder(a) == Resort([a EXCEPT !.sort.order = SortOrderToggle(@)])

\* App::show_index_details: the index whose details are fetched, if any
ShowDetailsTarget(a) ==
    IF a.selected_index = None THEN None
    ELSE Get(FilteredIndices(a), a.selected_index[1])

\* App::show_index_details: the state after the call
ShowIndexDetails(a) ==
    IF ShowDetailsTarget(a) = None THEN a
    ELSE [a EXCEPT !.details = DetailsFetch(@)]

\* App::handle_action, on the fields of App
HandleApp(a, action) ==
    CASE action = "Quit" -> [a EXCEPT !.running = FALSE]
      [] action = "SelectUp" -> MoveSelection(a, -1)
      [] action = "SelectDown" -> MoveSelection(a, 1)
      [] action = "SelectPageUp" -> MoveSelection(a, -20)
      [] action = "SelectPageDown" -> MoveSelection(a, 20)
      [] action = "SelectFirst" -> SelectFirst(a)
      [] action = "SelectLast" -> SelectLast(a)
      [] action = "ToggleHelp" -> ToggleHelpPopup(a)
      [] action = "HelpScrollUp" -> [a EXCEPT !.help_scroll = SaturatingSub(@, 1)]
      [] action = "HelpScrollDown" -> [a EXCEPT !.help_scroll = @ + 1]
      [] action = "TogglePause" -> [a EXCEPT !.paused = ~@]
      [] action = "ToggleGraph" -> [a EXCEPT !.show_graph = ~@]
      [] action = "ToggleHealth" -> [a EXCEPT !.show_health = ~@]
      [] action = "ToggleIndices" -> [a EXCEPT !.show_indices = ~@]
      [] action = "ToggleSystemIndices" -> ToggleSystemIndices(a)
      [] action = "ShowDetails" -> ShowIndexDetails(a)
      [] action = "ToggleExclude" -> ToggleExcludeSelected(a)
      [] action = "ClearExclusions" -> ClearExclusions(a)
      [] action = "IncreaseRefreshRate" -> IncreaseRefreshRate(a)
      [] action = "DecreaseRefreshRate" -> DecreaseRefreshRate(a)
      [] action \in {"NextColormap", "PrevColormap"} -> a
      [] action = "NextColumn" -> NextColumn(a)
      [] action = "PrevColumn" -> PrevColumn(a)
      [] action = "ToggleSortOrder" -> ToggleSortOrder(a)
      [] action = "EnterFilterMode" -> [a EXCEPT !.filter = FilterEnter(@)]
      [] action = "ExitFilterMode" -> [a EXCEPT !.filter = FilterExit(@)]
      [] action = "ClearFilter" -> [a EXCEPT !.filter = FilterClear(@)]
      [] action = "CloseDetails" -> [a EXCEPT !.details = DetailsClose(@)]
      [] action = "DetailsScrollUp" -> [a EXCEPT !.details.scroll = SaturatingSub(@, 1)]
      [] action = "DetailsScrollDown" -> [a EXCEPT !.details.scroll = @ + 1]
      [] action = "DetailsScrollPageUp" -> [a EXCEPT !.details.scroll = SaturatingSub(@, 10)]
      [] action = "DetailsScrollPageDown" -> [a EXCEPT !.details.scroll = @ + 10]

\* App::handle_action: the new App and, for ShowDetails, the spawned task
HandleAction(action) ==
    /\ app' = HandleApp(app, action)
    /\ details_tasks' =
         IF action = "ShowDetails" /\ ShowDetailsTarget(app) # None
         THEN Append(details_tasks, DetailsTaskNew(ShowDetailsTarget(app)[1]))
         ELSE details_tasks
    /\ requested' =
         IF action = "ShowDetails" /\ ShowDetailsTarget(app) # None
         THEN Some(ShowDetailsTarget(app)[1].name)
         ELSE requested
    /\ UNCHANGED <<fetch_chan, details_chan, client, poll_tasks, pc, polls>>

---------------------------------------------------------------------------
(* Key dispatch and the loop of run() (src/main.rs) *)

\* a key press: code is a KeyCode name or the character of KeyCode::Char
Key(code) == [code |-> code, ctrl |-> FALSE]
Ctrl(code) == [code |-> code, ctrl |-> TRUE]

\* a map_key_to_action whose overlay arms pass the keys they do not know on
\* to the arms of Normal mode
MapKeyToActionThroughOverlays(a, key) ==
    LET normal ==
            IF key.code \in {"q", "Esc"} THEN Some("Quit")
            ELSE IF key.code = "?" THEN Some("ToggleHelp")
            ELSE IF key.code = " " THEN Some("TogglePause")
            ELSE IF key.code = "/" THEN Some("EnterFilterMode")
            ELSE IF key.code = "Enter" THEN Some("ShowDetails")
            ELSE IF key.code = "x" THEN Some("ToggleExclude")
            ELSE IF key.code = "X" THEN Some("ClearExclusions")
            ELSE IF key.code \in {"Right", "l"} THEN Some("NextColumn")
            ELSE IF key.code \in {"Left", "h"} THEN Some("PrevColumn")
            ELSE IF key.code = "r" THEN Some("ToggleSortOrder")
            ELSE IF key.code \in {"+", "="} THEN Some("DecreaseRefreshRate")
            ELSE IF key.code \in {"-", "_"} THEN Some("IncreaseRefreshRate")
            ELSE IF key.code = "1" THEN Some("ToggleGraph")
            ELSE IF key.code = "2" THEN Some("ToggleHealth")
            ELSE IF key.code = "3" THEN Some("ToggleIndices")
            ELSE IF key.code = "." THEN Some("ToggleSystemIndices")
            ELSE IF key.code = "c" THEN Some("NextColormap")
            ELSE IF key.code = "C" THEN Some("PrevColormap")
            ELSE IF key.code \in {"Up", "k"} THEN Some("SelectUp")
            ELSE IF key.code \in {"Down", "j"} THEN Some("SelectDown")
            ELSE IF key.code \in {"PageUp", "b"} /\ key.ctrl THEN Some("SelectPageUp")
            ELSE IF key.code = "PageUp" THEN Some("SelectPageUp")
            ELSE IF key.code \in {"PageDown", "f"} /\ key.ctrl THEN Some("SelectPageDown")
            ELSE IF key.code = "PageDown" THEN Some("SelectPageDown")
            ELSE IF key.code \in {"Home", "g"} THEN Some("SelectFirst")
            ELSE IF key.code \in {"End", "G"} THEN Some("SelectLast")
            ELSE None
    IN
    IF a.show_help_popup THEN
        IF key.code \in {"Esc", "q", "?", "Enter"} THEN Some("ToggleHelp")
        ELSE IF key.code \in {"Up", "k"} THEN Some("HelpScrollUp")
        ELSE IF key.code \in {"Down", "j"} THEN Some("HelpScrollDown")
        ELSE normal
    ELSE IF a.details.show_popup THEN
        IF key.code \in {"Esc", "Enter", "q"} THEN Some("CloseDetails")
        ELSE IF key.code \in {"Up", "k"} THEN Some("DetailsScrollUp")
        ELSE IF key.code \in {"Down", "j"} THEN Some("DetailsScrollDown")
        ELSE IF key.code = "PageUp" THEN Some("DetailsScrollPageUp")
        ELSE IF key.code = "PageDown" THEN Some("DetailsScrollPageDown")
        ELSE normal
    ELSE IF a.filter.active THEN
        IF key.code = "u" /\ key.ctrl THEN Some("ClearFilter") ELSE None
    ELSE normal

\* map_key_to_action
MapKeyToAction(a, key) ==
    IF a.show_help_popup THEN
        IF key.code \in {"Esc", "q", "?", "Enter"} THEN Some("ToggleHelp")
        ELSE IF key.code \in {"Up", "k"} THEN Some("HelpScrollUp")
        ELSE IF key.code \in {"Down", "j"} THEN Some("HelpScrollDown")
        ELSE None
    ELSE IF a.details.show_popup THEN
        IF key.code \in {"Esc", "Enter", "q"} THEN Some("CloseDetails")
        ELSE IF key.code \in {"Up", "k"} THEN Some("DetailsScrollUp")
        ELSE IF key.code \in {"Down", "j"} THEN Some("DetailsScrollDown")
        ELSE IF key.code = "PageUp" THEN Some("DetailsScrollPageUp")
        ELSE IF key.code = "PageDown" THEN Some("DetailsScrollPageDown")
        ELSE None
    ELSE IF a.filter.active THEN
        IF key.code = "u" /\ key.ctrl THEN Some("ClearFilter") ELSE None
    ELSE
        IF key.code \in {"q", "Esc"} THEN Some("Quit")
        ELSE IF key.code = "?" THEN Some("ToggleHelp")
        ELSE IF key.code = " " THEN Some("TogglePause")
        ELSE IF key.code = "/" THEN Some("EnterFilterMode")
        ELSE IF key.code = "Enter" THEN Some("ShowDetails")
        ELSE IF key.code = "x" THEN Some("ToggleExclude")
        ELSE IF key.code = "X" THEN Some("ClearExclusions")
        ELSE IF key.code \in {"Right", "l"} THEN Some("NextColumn")
        ELSE IF key.code \in {"Left", "h"} THEN Some("PrevColumn")
        ELSE IF key.code = "r" THEN Some("ToggleSortOrder")
        ELSE IF key.code \in {"+", "="} THEN Some("DecreaseRefreshRate")
        ELSE IF key.code \in {"-", "_"} THEN Some("IncreaseRefreshRate")
        ELSE IF key.code = "1" THEN Some("ToggleGraph")
        ELSE IF key.code = "2" THEN Some("ToggleHealth")
        ELSE IF key.code = "3" THEN Some("ToggleIndices")
        ELSE IF key.code = "." THEN Some("ToggleSystemIndices")
        ELSE IF key.code = "c" THEN Some("NextColormap")
        ELSE IF key.code = "C" THEN Some("PrevColormap")
        ELSE IF key.code \in {"Up", "k"} THEN Some("SelectUp")
        ELSE IF key.code \in {"Down", "j"} THEN Some("SelectDown")
        ELSE IF key.code \in {"PageUp", "b"} /\ key.ctrl THEN Some("SelectPageUp")
        ELSE IF key.code = "PageUp" THEN Some("SelectPageUp")
        ELSE IF key.code \in {"PageDown", "f"} /\ key.ctrl THEN Some("SelectPageDown")
        ELSE IF key.code = "PageDown" THEN Some("SelectPageDown")
        ELSE IF key.code \in {"Home", "g"} THEN Some("SelectFirst")
        ELSE IF key.code \in {"End", "G"} THEN Some("SelectLast")
        ELSE None

\* the byte of each character key the model types into the filter input
CharByte == [c \in {"a", "q", "{"} |-> IF c = "a" THEN 97 ELSE IF c = "q" THEN 113 ELSE 123]

\* Input::handle_event of tui_input with the cursor at the end of the text:
\* a character is appended, Backspace deletes the last one, other keys
\* leave the text as it is
HandleEvent(f, key) ==
    IF key.code \in DOMAIN CharByte /\ ~key.ctrl
    THEN [f EXCEPT !.input = Append(@, CharByte[key.code])]
    ELSE IF key.code = "Backspace" /\ f.input # <<>>
    THEN [f EXCEPT !.input = SubSeq(@, 1, Len(@) - 1)]
    ELSE f

\* the keys of the model that are pressed in filter-editing mode
FilterModeKeys ==
    {Key("a"), Key("q"), Key("{"), Key("Backspace"), Key("Esc"), Key("Enter"), Ctrl("u")}

\* the bounds of the model: which key presses are explored in the state
KeyWithinBounds(key) ==
    LET act == MapKeyToAction(app, key)
    IN /\ act = Some("HelpScrollDown") => app.help_scroll < MaxScroll
       /\ act = Some("DetailsScrollDown") => app.details.scroll < MaxScroll
       /\ act = Some("DetailsScrollPageDown") => app.details.scroll + 10 <= MaxScroll
       /\ (act = Some("ShowDetails") /\ ShowDetailsTarget(app) # None)
             => Len(details_tasks) < MaxDetailsTasks
       /\ (act = None /\ app.filter.active) =>
             /\ key \in FilterModeKeys
             /\ key.code \in DOMAIN CharByte => Len(app.filter.input) < MaxFilterLen

\* run(), lines 110-129: one key press read from the terminal
KeyPress(key) ==
    /\ pc = "loop" /\ app.running
    /\ KeyWithinBounds(key)
    /\ LET act == MapKeyToAction(app, key)
       IN IF act # None THEN HandleAction(act[1])
          ELSE IF app.filter.active
          THEN IF key.code \in {"Esc", "Enter"}
               THEN HandleAction("ExitFilterMode")
               ELSE /\ app' = [app EXCEPT !.filter = Recompile(HandleEvent(@, key))]
                    /\ UNCHANGED <<fetch_chan, details_chan, client, poll_tasks,
                                   details_tasks, pc, polls, requested>>
          ELSE UNCHANGED vars

\* run(), line 95: the initial fetch
RunStart(limit) ==
    /\ pc = "start"
    /\ StartFetch(limit)
    /\ pc' = "loop"
    /\ UNCHANGED <<fetch_chan, details_chan, client, details_tasks, requested>>

\* run(), lines 131-134: start a new fetch when one is due
RefreshStep(limit) ==
    /\ pc = "loop"
    /\ ShouldRefresh(app) /\ ~app.loading
    /\ StartFetch(limit)
    /\ UNCHANGED <<fetch_chan, details_chan, client, details_tasks, pc, requested>>

\* run(), line 97: the loop ends once running is false
LoopExit ==
    /\ pc = "loop" /\ ~app.running
    /\ pc' = "done"
    /\ UNCHANGED <<app, fetch_chan, details_chan, client, poll_tasks, details_tasks, polls, requested>>

\* one clock tick: every stored Instant is one tick older
Older(instant) == IF instant = None THEN None ELSE Some(Min(instant[1] + 1, MaxAge))

Tick ==
    /\ pc = "loop"
    /\ app' = [app EXCEPT !.last_refresh = Older(@)]
    /\ client' = [client EXCEPT !.previous_snapshot =
                    IF @ = None THEN None
                    ELSE Some([@[1] EXCEPT !.age = Min(@ + 1, MaxAge)])]
    /\ UNCHANGED <<fetch_chan, details_chan, poll_tasks, details_tasks, pc, polls, requested>>

---------------------------------------------------------------------------
(* The view and the selection: polls that load the list, and the keys that   *)
(* exclude, filter, toggle system indices and move the selection.           *)

\* --refresh 1 --rate-samples 1
InitView == InitWith({1}, {1})

ViewResponses == StatsResponses({{NameA, NameB, NameSys}, {NameSys}, {}}, {0})

ViewKeys ==
    {Key("x"), Key("X"), Key("."), Key("Up"), Key("Down"), Key("PageUp"), Key("PageDown"),
     Key("Home"), Key("End"), Key("/"), Key("a"), Key("q"), Key("{"), Key("Backspace"),
     Key("Esc"), Ctrl("u")}

PollTaskStep(responses) ==
    \E i \in DOMAIN poll_tasks :
        \/ PollTaskLock(i)
        \/ PollTaskRates(i, responses)
        \/ PollTaskHealth(i)
        \/ PollTaskSend(i)

\* the first poll loads the list; the keys act on it
NextView ==
    \/ RunStart(None)
    \/ PollFetchResult
    \/ \E key \in ViewKeys : KeyPress(key)
    \/ PollTaskStep(ViewResponses)

SpecView == InitView /\ [][NextView]_vars

---------------------------------------------------------------------------
(* The cluster-wide rate: a cluster with the indices a, b, c and .s after    *)
(* two polls, and the keys that exclude, toggle system indices and filter.  *)

\* the write counters of the second response: against a first response of
\* zeros one tick earlier, the rates are 1, 2, 3 and 10 per second
TotalsCounters ==
    [n \in {NameA, NameB, NameC, NameSys} |->
        IF n = NameA THEN 1 ELSE IF n = NameB THEN 2 ELSE IF n = NameC THEN 3 ELSE 10]

\* the _stats responses of the first and of the second poll
TotalsFirst == [n \in DOMAIN TotalsCounters |-> Snapshot(n, 0)]
TotalsSecond == [n \in DOMAIN TotalsCounters |-> Snapshot(n, TotalsCounters[n])]

\* what a poll task sends when both of its requests succeed
TotalsResult(prev, stats, order) ==
    PollResult([ok |-> TRUE, rates |-> RatesOf(prev, stats, order)],
               [ok |-> TRUE, health |-> "green"])

\* App after start_fetch and poll_fetch_result for the first response, and
\* again for the second one `elapsed` ticks later; order1 and order2 are the
\* HashMap iteration orders of the two snapshots
TotalsApp(elapsed, order1, order2) ==
    LET a1 == ReceiveFetch(StartFetchApp(AppNew(1, 1)), TotalsResult(None, TotalsFirst, order1))
        prev == Some([age |-> elapsed, snapshot |-> TotalsFirst])
    IN ReceiveFetch(StartFetchApp(a1), TotalsResult(prev, TotalsSecond, order2))

\* run() with --refresh 1 --rate-samples 1 in its loop, both polls applied
InitTotals ==
    /\ \E elapsed \in 1..MaxAge :
         \E order1 \in Perms(DOMAIN TotalsFirst), order2 \in Perms(DOMAIN TotalsSecond) :
            app = TotalsApp(elapsed, order1, order2)
    /\ fetch_chan = <<>>
    /\ details_chan = <<>>
    /\ client = StoreSnapshot(ClientNew, TotalsSecond)
    /\ poll_tasks = <<>>
    /\ details_tasks = <<>>
    /\ pc = "loop"
    /\ polls = 2
    /\ requested = None

TotalsKeys ==
    {Key("x"), Key("X"), Key("."), Key("Down"), Key("/"), Key("a"), Key("Backspace"),
     Key("Esc")}

\* the keys act on the loaded list
NextTotals == \E key \in TotalsKeys : KeyPress(key)

SpecTotals == InitTotals /\ [][NextTotals]_vars

---------------------------------------------------------------------------
(* Sorting: one poll loads a, b, c and .s in any HashMap order, and the keys *)
(* change the sort column and the sort order.                               *)

InitSort == InitWith({1}, {1})

SortResponses == StatsResponses({{NameA, NameB, NameC, NameSys}}, {0})

\* next column, previous column, toggle order
SortKeys == {Key("Right"), Key("Left"), Key("r")}

NextSort ==
    \/ RunStart(Some(1))
    \/ PollFetchResult
    \/ PollTaskStep(SortResponses)
    \/ \E key \in SortKeys : KeyPress(key)

SpecSort == InitSort /\ [][NextSort]_vars

---------------------------------------------------------------------------
(* Smoothing: --rate-samples 1 or 2, and one more poll than the window is    *)
(* long; the write counter of a grows, stays or falls between polls, and b  *)
(* comes and goes.                                                          *)

InitSmooth == InitWith({1}, {1, 2})

SmoothResponses ==
    StatsResponses({{NameA}}, {0, 2, 4}) \cup StatsResponses({{NameA, NameB}}, {0})

NextSmooth ==
    \/ RunStart(Some(MaxPolls + 1))
    \/ RefreshStep(Some(MaxPolls + 1))
    \/ PollFetchResult
    \/ PollTaskStep(SmoothResponses)
    \/ Tick

SpecSmooth == InitSmooth /\ [][NextSmooth]_vars

---------------------------------------------------------------------------
(* The sparkline history: the loop after MAX_HISTORY_POINTS - 1 successful   *)
(* polls of index a, and the polls that fill rate_history and go past it.   *)

\* the _stats response of the k-th poll.  The write counter of a grows by
\* k - 1 in the second before it, so that the k-th total pushed to
\* rate_history is k - 1
HistoryStats(k) == [n \in {NameA} |-> Snapshot(n, (k * (k - 1)) \div 2)]

\* App after start_fetch and poll_fetch_result for each of the polls k..n,
\* one second apart, starting from a
RECURSIVE HistoryFrom(_, _, _)
HistoryFrom(a, k, n) ==
    IF Len(a.rate_history) = k - 1 /\ k > n THEN a
    ELSE LET prev == IF k = 1 THEN None
                     ELSE Some([age |-> 1, snapshot |-> HistoryStats(k - 1)])
             result == TotalsResult(prev, HistoryStats(k), <<NameA>>)
         IN HistoryFrom(ReceiveFetch(StartFetchApp(a), result), k + 1, n)

\* App after the first n polls
HistoryApp(n) == HistoryFrom(AppNew(1, 1), 1, n)

InitHistory ==
    /\ app = HistoryApp(MAX_HISTORY_POINTS - 1)
    /\ fetch_chan = <<>>
    /\ details_chan = <<>>
    /\ client = StoreSnapshot(ClientNew, HistoryStats(MAX_HISTORY_POINTS - 1))
    /\ poll_tasks = <<>>
    /\ details_tasks = <<>>
    /\ pc = "loop"
    /\ polls = 0
    /\ requested = None

\* the counter of a stays or grows by 5
HistoryResponses ==
    LET last == HistoryStats(MAX_HISTORY_POINTS - 1)[NameA].index_total
    IN {[n \in {NameA} |-> Snapshot(n, last + d)] : d \in {0, 5}}

NextHistory ==
    \/ RefreshStep(Some(MaxPolls + 1))
    \/ PollFetchResult
    \/ PollTaskStep(HistoryResponses)
    \/ Tick

SpecHistory == InitHistory /\ [][NextHistory]_vars

---------------------------------------------------------------------------
(* The refresh interval: --refresh below, at and above the limits, and the   *)
(* keys that make the interval shorter and longer.                          *)

\* --refresh 0, 1, 59 or 61 (clap parses any u64), --rate-samples 1
InitRefresh == InitWith({0, 1, 59, 61}, {1})

\* + is DecreaseRefreshRate, - is IncreaseRefreshRate
RefreshKeys == {Key("+"), Key("-")}

NextRefresh ==
    \/ RunStart(None)
    \/ PollFetchResult
    \/ PollTaskStep(StatsResponses({{NameA}}, {0}))
    \/ \E key \in RefreshKeys : KeyPress(key)

SpecRefresh == InitRefresh /\ [][NextRefresh]_vars

---------------------------------------------------------------------------
(* The periodic poll: run() starts a fetch at start and whenever one is due, *)
(* the task runs its requests, poll_fetch_result applies what it sends.     *)

InitPoll == InitWith({1}, {1})

PollResponses == StatsResponses({{NameA, NameB}}, {0}) \cup StatsResponses({{NameA}}, {0, 2})

\* pause, quit, move the selection
PollKeys == {Key(" "), Key("q"), Key("Down")}

NextPoll ==
    \/ RunStart(Some(MaxPolls))
    \/ RefreshStep(Some(MaxPolls))
    \/ PollFetchResult
    \/ PollTaskStep(PollResponses)
    \/ \E key \in PollKeys : KeyPress(key)
    \/ Tick
    \/ LoopExit

SpecPoll == InitPoll /\ [][NextPoll]_vars

\* the same loop when a poll task can end without sending
NextPollFault ==
    \/ NextPoll
    \/ \E i \in DOMAIN poll_tasks : PollTaskPanic(i)

SpecPollFault == InitPoll /\ [][NextPollFault]_vars

---------------------------------------------------------------------------
(* The detail overlay: one poll loads the list, Enter opens the overlay of   *)
(* the selected index and closes it, the detail task runs its requests.     *)

InitDetails == InitWith({1}, {1})

DetailsListResponses == StatsResponses({{NameA, NameB}}, {0})

\* the sets of requests of fetch_index_details that fail: none, the settings
\* request alone, two of the others, every request but it, all of them
FailSets ==
    {{}, {"settings"}, {"ilm", "segments"}, DetailRequests \ {"settings"}, DetailRequests}

\* move the selection, open or close the overlay, close it or quit
DetailsKeys == {Key("Down"), Key("Enter"), Key("q")}

DetailsTaskStep(failSets) ==
    \E i \in DOMAIN details_tasks :
        \/ DetailsTaskLock(i)
        \/ DetailsTaskFetch(i, failSets)
        \/ DetailsTaskSend(i)

NextDetails ==
    \/ RunStart(None)
    \/ PollFetchResult
    \/ PollTaskStep(DetailsListResponses)
    \/ PollDetailsResult
    \/ DetailsTaskStep(FailSets)
    \/ \E key \in DetailsKeys : KeyPress(key)
    \/ LoopExit

SpecDetails == InitDetails /\ [][NextDetails]_vars

---------------------------------------------------------------------------
(* The whole loop of run(): periodic polls and detail fetches together *)

InitLoop == InitWith({1}, {1})

LoopResponses == StatsResponses({{NameA}}, {0})

\* pause, quit or close the overlay, select, open or close the overlay
LoopKeys == {Key(" "), Key("q"), Key("End"), Key("Enter")}

NextLoop ==
    \/ RunStart(Some(MaxPolls))
    \/ RefreshStep(Some(MaxPolls))
    \/ PollFetchResult
    \/ PollTaskStep(LoopResponses)
    \/ PollDetailsResult
    \/ DetailsTaskStep({{}})
    \/ \E key \in LoopKeys : KeyPress(key)
    \/ Tick
    \/ LoopExit

\* the loop of run() keeps turning, time passes, and a spawned task is
\* scheduled by the runtime until it ends
FairLoop ==
    /\ WF_vars(RefreshStep(Some(MaxPolls)))
    /\ WF_vars(PollFetchResult)
    /\ WF_vars(PollDetailsResult)
    /\ WF_vars(PollTaskStep(LoopResponses))
    /\ WF_vars(DetailsTaskStep({{}}))
    /\ WF_vars(Tick)

SpecLoop == InitLoop /\ [][NextLoop]_vars /\ FairLoop

---------------------------------------------------------------------------
(* The input modes: one poll loads the index a; the keys open and close the  *)
(* help overlay, the details overlay and the filter editor, and keys of     *)
(* Normal mode are pressed in every mode.                                   *)

OverlayKeys ==
    {Key("?"), Key("Enter"), Key("Esc"), Key("q"), Key("Up"), Key("Down"),
     Key("PageDown"), Key("x"), Key(" "), Key("/"), Key("a"), Key("r")}

NextOverlay ==
    \/ RunStart(None)
    \/ PollFetchResult
    \/ PollTaskStep(LoopResponses)
    \/ \E key \in OverlayKeys : KeyPress(key)
    \/ LoopExit

SpecOverlay == InitLoop /\ [][NextOverlay]_vars

---------------------------------------------------------------------------
(* Properties of the view and the selection *)

\* C1: whenever selected_index is Some(i), i is smaller than the length of
\* the derived view (filtered_indices).
C1_SelectionInRange ==
    app.selected_index # None => app.selected_index[1] < Len(FilteredIndices(app))

MoveSelectionStep ==
    \E key \in {Key("Up"), Key("Down"), Key("PageUp"), Key("PageDown")} :
        /\ MapKeyToAction(app, key) \in
              {Some("SelectUp"), Some("SelectDown"), Some("SelectPageUp"), Some("SelectPageDown")}
        /\ KeyPress(key)

---------------------------------------------------------------------------
(* Properties of the periodic poll *)

\* C3: the periodic poll is single-flight: at most one poll task exists at
\* any time, and a start_fetch called while loading is true changes no state
\* and spawns no task.
C3_PollSingleFlight ==
    /\ Len(poll_tasks) <= 1
    /\ app.loading => (StartFetchApp(app) = app /\ ~StartFetchSpawns(app))

\* C3 witness: the second poll is in flight
C3_Witness == polls = 2 /\ app.loading /\ Len(poll_tasks) = 1

\* poll_fetch_result receives a failed result
FailedResultStep ==
    /\ fetch_chan # <<>> /\ ~Head(fetch_chan).ok
    /\ PollFetchResult

\* C4: a failed poll result sets error to Some and leaves indices,
\* cluster_health, rate_history, the smoothing windows, the selection, the
\* exclusions, the sort and the filter as they were: besides error only
\* loading, last_refresh, fetch_start and last_fetch_duration change.
C4_FailedPollKeepsData ==
    [][FailedResultStep =>
        /\ app'.error # None
        /\ [app' EXCEPT !.error = app.error, !.loading = app.loading,
                        !.last_refresh = app.last_refresh,
                        !.fetch_start = app.fetch_start,
                        !.last_fetch_duration = app.last_fetch_duration] = app]_vars

\* C4 witness: an error is shown over a list, a history and a selection kept
\* from an earlier poll
C4_Witness ==
    /\ app.error # None /\ ~app.loading
    /\ app.indices # <<>> /\ app.rate_history # <<>>
    /\ app.selected_index # None
    /\ \E n \in Names : app.index_rate_history[n] # None

\* C5: once a poll task has ended without delivering a result, the
\* poll_fetch_result that follows sees the channel disconnected, reports
\* "Fetch task disconnected" and sets loading to false.
C5_DeadTaskReported ==
    (pc = "loop" /\ app.loading /\ poll_tasks = <<>> /\ fetch_chan = <<>>) =>
        LET after == FetchNothing(app, FetchSenders)
        IN ~after.loading /\ after.error = Some("Fetch task disconnected")

---------------------------------------------------------------------------
(* Properties of the detail overlay *)

\* C7: after DetailsState::close the result of a detail task that completes
\* later is dropped: while the overlay stays closed, details.data is None,
\* details.error is None and details.loading is false.
C7_ClosedOverlayStaysEmpty ==
    ~app.details.show_popup =>
        /\ app.details.data = None
        /\ app.details.error = None
        /\ ~app.details.loading

\* C8: the detail fetch is single-flight: at most one detail task is in
\* flight at any time.
C8_DetailsSingleFlight == Len(details_tasks) <= 1

\* C9: whenever the overlay is open and details.data is Some, the record's
\* name is the name passed to the most recent fetch call.
C9_DataIsOfLatestFetch ==
    (app.details.show_popup /\ app.details.data # None) =>
        requested = Some(app.details.data[1].name)

\* C10: when the settings request of a detail fetch fails, the fetch delivers
\* an error: once its result is received, details.error is Some and
\* details.data is None.
C10_SettingsFailureIsError ==
    \A i \in DOMAIN details_tasks :
        details_tasks[i].st = "locked" =>
            \A failed \in {S \in FailSets : "settings" \in S} :
                LET t == details_tasks[i]
                    result == FetchIndexDetails(t.name, t.doc_count, t.rate_per_sec,
                                                t.size_bytes, failed)
                    after == DetailsReceive(app.details, result)
                IN after.error # None /\ after.data = None

---------------------------------------------------------------------------
(* Properties of the loop *)

\* a result of a poll has been applied and no poll is in flight
PollResultApplied ==
    /\ pc = "loop"
    /\ app.last_refresh # None
    /\ poll_tasks = <<>> /\ fetch_chan = <<>>

\* a new poll has been started, or the schedule is off: paused, quit, or the
\* polls the model explores are used up
NextPollStarted ==
    \/ poll_tasks # <<>>
    \/ app.paused
    \/ ~app.running
    \/ polls = MaxPolls

\* C6: no fetch outcome stops the loop or the schedule: no poll result and
\* no detail result sets running to false, and while the program runs
\* unpaused, after any poll result (Ok or Err) has been applied a new poll is
\* eventually started.
C6_FetchOutcomesKeepLoop ==
    /\ [][(PollFetchResult \/ PollDetailsResult) => app'.running = app.running]_vars
    /\ PollResultApplied ~> NextPollStarted

\* C6 witness: a failed poll was applied, and the next poll is in flight
C6_Witness ==
    /\ app.error # None /\ app.last_refresh # None
    /\ app.running /\ ~app.paused
    /\ app.loading /\ poll_tasks # <<>> /\ polls = 2

---------------------------------------------------------------------------
(* Properties of fetch_index_details *)

\* the facts of a record that come from request req
FactsOf(d, req) ==
    CASE req = "ilm" -> <<d.ilm_policy, d.ilm_phase>>
      [] req = "segments" -> <<d.total_segments>>
      [] req = "shards" -> <<d.shard_allocation>>
      [] req = "templates" -> <<d.templates>>
      [] req = "cat" -> <<d.health, d.status>>
      [] req = "ds" -> <<d.data_stream>>

\* the absent or default value of the facts of request req
AbsentFacts(req) ==
    CASE req = "ilm" -> <<None, None>>
      [] req = "segments" -> <<0>>
      [] req = "shards" -> <<<<>>>>
      [] req = "templates" -> <<<<>>>>
      [] req = "cat" -> <<None, None>>
      [] req = "ds" -> <<None>>

\* the same, with the lifecycle policy falling back to the lifecycle name of
\* the index settings
DegradedFacts(req, name) ==
    IF req = "ilm" THEN <<SettingsOf(name).lifecycle_name, None>> ELSE AbsentFacts(req)

\* for the detail task at its request and every set of failing ancillary
\* requests: the fetch succeeds, facts(req) are the facts of each failed
\* request, the others are as when nothing fails
AncillaryFailuresDegradeTo(facts(_, _)) ==
    \A i \in DOMAIN details_tasks :
        details_tasks[i].st = "locked" =>
            \A failed \in SUBSET AncillaryRequests :
                LET t == details_tasks[i]
                    result == FetchIndexDetails(t.name, t.doc_count, t.rate_per_sec,
                                                t.size_bytes, failed)
                    clean == FetchIndexDetails(t.name, t.doc_count, t.rate_per_sec,
                                               t.size_bytes, {})
                IN /\ result.ok
                   /\ \A req \in AncillaryRequests :
                        FactsOf(result.details, req) =
                            IF req \in failed THEN facts(req, t.name)
                            ELSE FactsOf(clean.details, req)
                   /\ \A field \in {"name", "provided_name", "creation_date", "primary_shards",
                                    "replica_shards", "is_frozen", "is_partial", "uuid",
                                    "doc_count", "rate_per_sec", "size_bytes"} :
                        result.details[field] = clean.details[field]

\* C11 as claimed: for every subset of the ancillary detail requests that
\* fails, the detail fetch still succeeds, each failed fact is reported as its
\* absent or default value, and every fact whose request succeeded has the
\* value it has when no request fails.
C11_AncillaryFailuresAbsent ==
    AncillaryFailuresDegradeTo(LAMBDA req, name : AbsentFacts(req))

\* C11 as amended: the same, except that with the lifecycle request failed
\* the lifecycle policy is the lifecycle name of the index settings (absent
\* only if the settings carry none); the lifecycle phase is absent.
C11_AncillaryFailuresDegrade ==
    AncillaryFailuresDegradeTo(DegradedFacts)

\* C11 witness: the overlay shows a record fetched with the lifecycle and
\* segments requests failed and the others answered
C11_Witness ==
    /\ app.details.show_popup /\ app.details.data # None /\ app.details.error = None
    /\ app.details.data[1].ilm_phase = None
    /\ app.details.data[1].total_segments = 0
    /\ app.details.data[1].templates # <<>>
    /\ app.details.data[1].provided_name # None

---------------------------------------------------------------------------
(* Properties of the client lock *)

\* C12: no background task holds the client lock across more than one
\* request: between the counters request and the health request of a poll
\* task the lock is free, so that a waiting detail task can take it.
C12_LockFreeBetweenRequests ==
    \A i \in DOMAIN poll_tasks :
        poll_tasks[i].st = "rates_done" =>
            /\ ~client.locked
            /\ \A j \in DOMAIN details_tasks :
                 details_tasks[j].st = "spawned" => ENABLED DetailsTaskLock(j)

---------------------------------------------------------------------------
(* Properties of the filter *)

\* the compile of the current, non-empty filter text fails
CompileFailed(f) == f.input # <<>> /\ ~CompileFilter(f.input).ok

\* C13: the cached predicate is None whenever the filter text is empty or
\* the compile of the current text failed, and is_match is then true for
\* every item, even if an earlier text had compiled; error is Some only when
\* the compile failed.
C13_NoPredicateMatchesAll ==
    /\ (app.filter.input = <<>> \/ CompileFailed(app.filter)) =>
          /\ app.filter.compiled = None
          /\ \A k \in DOMAIN app.indices : IsMatch(app.filter, app.indices[k])
    /\ app.filter.error # None => CompileFailed(app.filter)

\* C13 witness: the text "a{" does not compile, typed over a loaded list
\* right after "a", which compiled to a predicate
C13_Witness ==
    /\ app.indices # <<>>
    /\ app.filter.active /\ app.filter.input = <<97, 123>>
    /\ app.filter.error # None /\ app.filter.compiled = None

---------------------------------------------------------------------------
(* Properties of the cluster-wide rate *)

\* the rate_per_sec values of a list of indices, in order
RatesIn(list) == [k \in DOMAIN list |-> list[k].rate_per_sec]

\* C14: total_cluster_rate() is the sum of rate_per_sec over exactly the
\* indices that filtered_indices() returns.
C14_TotalIsSumOfView ==
    TotalClusterRate(app) = RatSum(RatesIn(FilteredIndices(app)))

\* C14 witness: b is excluded, .s is hidden and the filter "a" is compiled,
\* so that only a, at 1 per second, is in the view and in the total
C14_Witness ==
    /\ app.filter.compiled # None
    /\ NameB \in app.excluded_indices
    /\ ~app.show_system_indices
    /\ RatesIn(FilteredIndices(app)) = << <<1, 1>> >>
    /\ TotalClusterRate(app) = <<1, 1>>

\* the list holds a at 1, b at 2, c at 3 and .s at 10 per second, and the
\* filter text is empty
ExampleRates ==
    /\ {[name |-> app.indices[k].name, rate |-> app.indices[k].rate_per_sec] :
            k \in DOMAIN app.indices}
         = {[name |-> NameA, rate |-> <<1, 1>>], [name |-> NameB, rate |-> <<2, 1>>],
            [name |-> NameC, rate |-> <<3, 1>>], [name |-> NameSys, rate |-> <<10, 1>>]}
    /\ Len(app.indices) = 4
    /\ app.filter.input = <<>>

\* the totals of the example with system indices hidden and then shown
ExampleTotalsBeforeExcluding ==
    /\ (~app.show_system_indices /\ app.excluded_indices = {}) =>
          TotalClusterRate(app) = <<6, 1>>
    /\ (app.show_system_indices /\ app.excluded_indices = {}) =>
          TotalClusterRate(app) = <<16, 1>>

\* C15 as stated: with a(1), b(2), c(3) and .s(10), .s hidden by default and
\* no filter, the total is 6; with system indices shown it is 16; with a
\* excluded in addition it is 5.
C15_TotalsAsStated ==
    ExampleRates =>
        /\ ExampleTotalsBeforeExcluding
        /\ (app.show_system_indices /\ app.excluded_indices = {NameA}) =>
              TotalClusterRate(app) = <<5, 1>>

\* C15 amended: the total is 6 by default and 16 with system indices shown;
\* with a excluded it is 15 while system indices are shown, and 5 once they
\* are hidden again.
C15_TotalsOfExample ==
    ExampleRates =>
        /\ ExampleTotalsBeforeExcluding
        /\ (app.show_system_indices /\ app.excluded_indices = {NameA}) =>
              TotalClusterRate(app) = <<15, 1>>
        /\ (~app.show_system_indices /\ app.excluded_indices = {NameA}) =>
              TotalClusterRate(app) = <<5, 1>>

\* C15 witness: system indices are shown, a is excluded, the total is 15
C15_Witness ==
    /\ ExampleRates
    /\ app.show_system_indices /\ app.excluded_indices = {NameA}
    /\ TotalClusterRate(app) = <<15, 1>>

---------------------------------------------------------------------------
(* Properties of the derived view *)

\* the three conditions under which an index of the raw list is shown
InView(a, i) ==
    /\ i.name \notin a.excluded_indices
    /\ a.show_system_indices \/ ~StartsWithDot(i.name)
    /\ IsMatch(a.filter, i)

\* the positions of the raw list whose index is shown
ShownPositions(a) == {j \in DOMAIN a.indices : InView(a, a.indices[j])}

\* the k-th smallest position of a set of positions
NthPosition(S, k) == CHOOSE j \in S : Cardinality({m \in S : m <= j}) = k

\* C16: filtered_indices() holds an index of the raw list if and only if it
\* is not excluded, is visible under show_system_indices and is matched by
\* the filter; it keeps the order of the raw list and holds nothing else.
C16_ViewIsTheShownSublist ==
    LET view == FilteredIndices(app)
    IN /\ Len(view) = Cardinality(ShownPositions(app))
       /\ \A k \in DOMAIN view : view[k] = app.indices[NthPosition(ShownPositions(app), k)]

\* C16 witness: of the three loaded indices a is excluded and .s is hidden,
\* so that the view is b alone
C16_Witness ==
    /\ Len(app.indices) = 3
    /\ app.excluded_indices = {NameA} /\ ~app.show_system_indices
    /\ Len(FilteredIndices(app)) = 1 /\ FilteredIndices(app)[1].name = NameB

---------------------------------------------------------------------------
(* Properties of the actions that shrink the view *)

\* the selection re-clamped against a view of new_count items: None if the
\* view is empty, the last index if old is out of range, old otherwise
Reclamped(old, new_count) ==
    IF new_count = 0 \/ old = None THEN None
    ELSE IF old[1] >= new_count THEN Some(new_count - 1)
    ELSE old

\* a step of run() in which the key x calls toggle_exclude_selected while
\* the selection is an index of the view
ToggleExcludeStep ==
    /\ MapKeyToAction(app, Key("x")) = Some("ToggleExclude")
    /\ app.selected_index # None
    /\ Get(FilteredIndices(app), app.selected_index[1]) # None
    /\ KeyPress(Key("x"))

\* C17: ToggleExclude on the selected visible index adds its name to
\* excluded_indices and re-clamps the selection against the new view: None
\* if the view is now empty, the new last index if the old index is out of
\* range, unchanged otherwise.
C17_ExcludeReclampsSelection ==
    [][ToggleExcludeStep =>
        LET name == FilteredIndices(app)[app.selected_index[1] + 1].name
        IN /\ name \notin app.excluded_indices
           /\ app'.excluded_indices = app.excluded_indices \cup {name}
           /\ app'.selected_index =
                 Reclamped(app.selected_index, Len(FilteredIndices(app')))]_vars

\* C17 witness: with a, b and .s loaded and shown, one index is excluded and
\* the selection is the last index of the two that are left
C17_Witness ==
    /\ Len(app.indices) = 3 /\ app.show_system_indices
    /\ Cardinality(app.excluded_indices) = 1
    /\ Len(FilteredIndices(app)) = 2
    /\ app.selected_index = Some(1)

\* a step of run() in which the key . calls toggle_system_indices
ToggleSystemStep ==
    /\ MapKeyToAction(app, Key(".")) = Some("ToggleSystemIndices")
    /\ KeyPress(Key("."))

\* C18 as stated: hiding system indices re-clamps the selection: unchanged
\* if the old index is within the new, non-empty view, None only if the view
\* becomes empty, the new last index only if the old index is out of range.
C18_HidingReclampsSelection ==
    [][(ToggleSystemStep /\ app.show_system_indices) =>
        app'.selected_index =
            Reclamped(app.selected_index, Len(FilteredIndices(app')))]_vars

\* C18 amended: toggle_system_indices, in either direction, flips
\* show_system_indices and resets the selection to None.
C18_ToggleResetsSelection ==
    [][ToggleSystemStep =>
        /\ app'.show_system_indices = ~app.show_system_indices
        /\ app'.selected_index = None]_vars

\* C18 witness: system indices are hidden again after an exclusion was made
\* while they were shown; the view is not empty and nothing is selected
C18_Witness ==
    /\ Len(app.indices) = 3 /\ ~app.show_system_indices
    /\ app.excluded_indices = {NameSys}
    /\ app.filter.input = <<>>
    /\ Len(FilteredIndices(app)) = 2
    /\ app.selected_index = None

---------------------------------------------------------------------------
(* Properties of the selection when a poll replaces the list *)

\* a step of run() in which poll_fetch_result receives an Ok result
SuccessfulResultStep ==
    /\ fetch_chan # <<>> /\ Head(fetch_chan).ok
    /\ PollFetchResult

\* C19: after poll_fetch_result has applied a successful result, the
\* selection fits the new view: selected_index is None if the new view is
\* empty, and a selected index is smaller than the new view's length.
C19_PollRecomputesSelection ==
    [][SuccessfulResultStep =>
        LET count == Len(FilteredIndices(app'))
        IN /\ count = 0 => app'.selected_index = None
           /\ app'.selected_index # None => app'.selected_index[1] < count]_vars

---------------------------------------------------------------------------
(* Properties of the selection movement *)

\* the delta that each movement action passes to move_selection
MovementDelta ==
    [act \in {"SelectUp", "SelectDown", "SelectPageUp", "SelectPageDown"} |->
        IF act = "SelectUp" THEN -1 ELSE IF act = "SelectDown" THEN 1
        ELSE IF act = "SelectPageUp" THEN -20 ELSE 20]

\* the selection that a movement by delta is to produce over a view of
\* count items
MovedSelection(old, delta, count) ==
    IF count = 0 THEN None
    ELSE IF old # None THEN Some(Max(0, Min(count - 1, old[1] + delta)))
    ELSE IF delta > 0 THEN Some(0) ELSE Some(count - 1)

\* C20: move_selection(delta) over a view of count items: from Some(i) the
\* selection becomes max(0, min(count-1, i+delta)); from None it becomes 0
\* if delta > 0 and count-1 otherwise; over an empty view it becomes None.
C20_MoveSelectionClamps ==
    [][\A key \in {Key("Up"), Key("Down"), Key("PageUp"), Key("PageDown")} :
         \A act \in DOMAIN MovementDelta :
            (MapKeyToAction(app, key) = Some(act) /\ KeyPress(key)) =>
                /\ app'.selected_index =
                      MovedSelection(app.selected_index, MovementDelta[act],
                                     Len(FilteredIndices(app)))
                /\ FilteredIndices(app') = FilteredIndices(app)]_vars

\* C20 witness: the middle one of three shown indices is selected, which only
\* a movement by one from a neighbouring index produces
C20_Witness ==
    /\ Len(FilteredIndices(app)) = 3
    /\ app.selected_index = Some(1)

---------------------------------------------------------------------------
(* Properties of the direct jumps *)

\* a step of run() in which Home calls select_first
SelectFirstStep ==
    /\ MapKeyToAction(app, Key("Home")) = Some("SelectFirst")
    /\ KeyPress(Key("Home"))

\* a step of run() in which End calls select_last
SelectLastStep ==
    /\ MapKeyToAction(app, Key("End")) = Some("SelectLast")
    /\ KeyPress(Key("End"))

\* C21: over a non-empty view select_first sets the selection to index 0
\* and select_last to index count-1, and nothing else changes; over an empty
\* view both leave the whole state, selected_index included, unchanged.
C21_JumpsSelectEnds ==
    [][LET count == Len(FilteredIndices(app))
       IN /\ SelectFirstStep =>
                app' = IF count > 0 THEN [app EXCEPT !.selected_index = Some(0)] ELSE app
          /\ SelectLastStep =>
                app' = IF count > 0 THEN [app EXCEPT !.selected_index = Some(count - 1)]
                       ELSE app]_vars

\* C21 witness: a, b and .s are all shown, nothing is excluded or filtered,
\* and the last of the three is selected
C21_Witness ==
    /\ Len(FilteredIndices(app)) = 3
    /\ app.excluded_indices = {} /\ app.filter.input = <<>>
    /\ app.selected_index = Some(2)

---------------------------------------------------------------------------
(* Properties of the sort *)

\* the position of x in list
PositionIn(list, x) == CHOOSE k \in DOMAIN list : list[k] = x

\* output is input sorted by st: a permutation of it, every adjacent pair in
\* the order of the comparator, and elements that compare Equal in the order
\* they had in input
SortedFrom(st, input, output) ==
    /\ Len(output) = Len(input)
    /\ \A x \in Range(input) :
          Cardinality({k \in DOMAIN output : output[k] = x})
              = Cardinality({k \in DOMAIN input : input[k] = x})
    /\ \A k \in 1..(Len(output) - 1) :
          SortCompare(st, output[k], output[k + 1]) # "Greater"
    /\ \A p, q \in DOMAIN output :
          (p < q /\ SortCompare(st, output[p], output[q]) = "Equal") =>
              PositionIn(input, output[p]) < PositionIn(input, output[q])

\* a step of run() in which a key changes the sort column or order and
\* calls resort
ResortStep ==
    \E key \in {Key("Right"), Key("Left"), Key("r")} :
        /\ MapKeyToAction(app, key) \in
              {Some("NextColumn"), Some("PrevColumn"), Some("ToggleSortOrder")}
        /\ KeyPress(key)

\* C22: SortState::sort returns a permutation of its input in which every
\* adjacent pair is ordered by the comparator of the active column, reversed
\* when the order is Descending, and elements that compare equal keep their
\* input order; both where resort and where poll_fetch_result call it.
C22_SortIsStableOrdering ==
    [][/\ ResortStep => SortedFrom(app'.sort, app.indices, app'.indices)
       /\ SuccessfulResultStep =>
             SortedFrom(app.sort,
                        UpdateIndicesWithRates(<<>>, Head(fetch_chan).indices,
                                               app.index_rate_history,
                                               app.rate_samples).indices,
                        app'.indices)]_vars

\* C22 witness: the four indices sorted by health, descending: yellow b
\* first, then the three green ones
C22_Witness ==
    /\ Len(app.indices) = 4
    /\ app.sort = [column |-> "Health", order |-> "Descending"]
    /\ app.indices[1].name = NameB
    /\ SortedFrom(app.sort, app.indices, app.indices)

---------------------------------------------------------------------------
(* Properties of the smoothed rate *)

\* the last n elements of seq, all of it if it has fewer
LastN(seq, n) == IF Len(seq) <= n THEN seq ELSE SubSeq(seq, Len(seq) - n + 1, Len(seq))

\* the instantaneous rates of index `name` that the window of a holds
WindowOf(a, name) ==
    IF a.index_rate_history[name] = None THEN <<>> ELSE a.index_rate_history[name][1]

\* the arithmetic mean of a non-empty sequence of rates
Mean(seq) == RatDivInt(RatSum(seq), Len(seq))

\* the rate_per_sec that the list of a shows for index `name`
DisplayedRate(a, name) ==
    (CHOOSE i \in Range(a.indices) : i.name = name).rate_per_sec

\* C23: with a window of capacity N = rate_samples, the rate_per_sec shown
\* for an index after each successful poll is the arithmetic mean of the
\* last min(N, samples seen) instantaneous rates delivered for it in
\* consecutive successful polls.  The windows start empty, change only when
\* a successful result is applied, and then hold the last N of what they
\* held with the delivered rate appended.
C23_DisplayedRateIsWindowMean ==
    [][/\ app'.index_rate_history # app.index_rate_history => SuccessfulResultStep
       /\ SuccessfulResultStep =>
             \A k \in DOMAIN Head(fetch_chan).indices :
                LET delivered == Head(fetch_chan).indices[k]
                    seen == Append(WindowOf(app, delivered.name), delivered.rate_per_sec)
                    last == LastN(seen, app.rate_samples)
                IN /\ WindowOf(app', delivered.name) = last
                   /\ DisplayedRate(app', delivered.name) = Mean(last)]_vars

\* C23 witness: --rate-samples 2 and three polls applied; the window of a
\* holds the rates 0 and 2 of the last two, and 1 per second is displayed
C23_Witness ==
    /\ app.rate_samples = 2 /\ Len(app.rate_history) = 3
    /\ WindowOf(app, NameA) = << <<0, 1>>, <<2, 1>> >>
    /\ app.indices # <<>> /\ DisplayedRate(app, NameA) = <<1, 1>>

---------------------------------------------------------------------------
(* Properties of the instantaneous rate *)

\* a previous snapshot taken `elapsed` seconds ago in which index a had
\* the write counter `total`
SnapshotOfA(elapsed, total) ==
    Some([age |-> elapsed, snapshot |-> [n \in {NameA} |-> Snapshot(NameA, total)]])

\* the examples: 100 -> 150 over 5 s is 10 per second, 100 -> 90 is 0, and
\* so are a change over no time at all, an index the previous snapshot does
\* not hold, and the first poll
RateExamples ==
    /\ InstantRate(SnapshotOfA(5, 100), NameA, Snapshot(NameA, 150)) = <<10, 1>>
    /\ InstantRate(SnapshotOfA(5, 100), NameA, Snapshot(NameA, 90)) = RatZero
    /\ InstantRate(SnapshotOfA(0, 100), NameA, Snapshot(NameA, 150)) = RatZero
    /\ InstantRate(SnapshotOfA(5, 100), NameB, Snapshot(NameB, 150)) = RatZero
    /\ InstantRate(None, NameA, Snapshot(NameA, 150)) = RatZero

\* a step in which the request of poll task i for the counters is answered:
\* fetch_index_rates computes the rates and stores the current snapshot
RatesComputedStep(i) ==
    /\ i \in DOMAIN poll_tasks /\ poll_tasks[i].st = "locked"
    /\ i \in DOMAIN poll_tasks' /\ poll_tasks'[i].st = "rates_done"
    /\ poll_tasks'[i].res[1].ok

\* C24: the instantaneous rate of an index is (current_total -
\* previous_total) / elapsed_seconds only when a previous snapshot holds the
\* index, elapsed > 0 and current_total >= previous_total; in every other
\* case (first poll, new index, counter reset, zero elapsed time) it is 0.
C24_RateFromCounters ==
    [][/\ RateExamples
       /\ \A i \in DOMAIN poll_tasks :
            RatesComputedStep(i) =>
               LET prev == client.previous_snapshot
                   current_snapshot == client'.previous_snapshot[1].snapshot
                   rates == poll_tasks'[i].res[1].rates
               IN /\ {rates[k].name : k \in DOMAIN rates} = DOMAIN current_snapshot
                  /\ \A k \in DOMAIN rates :
                        LET name == rates[k].name
                            current_total == current_snapshot[name].index_total
                        IN rates[k].rate_per_sec =
                              IF /\ prev # None
                                 /\ name \in DOMAIN prev[1].snapshot
                                 /\ prev[1].age > 0
                                 /\ current_total >= prev[1].snapshot[name].index_total
                              THEN Rat(current_total - prev[1].snapshot[name].index_total,
                                       prev[1].age)
                              ELSE RatZero]_vars

\* C24 witness: a poll task has its rates, and a counter that grew by 2 over
\* two ticks makes 1 per second
C24_Witness ==
    \E i \in DOMAIN poll_tasks :
        /\ poll_tasks[i].st = "rates_done" /\ poll_tasks[i].res[1].ok
        /\ \E k \in DOMAIN poll_tasks[i].res[1].rates :
              /\ poll_tasks[i].res[1].rates[k].name = NameA
              /\ poll_tasks[i].res[1].rates[k].rate_per_sec = <<1, 1>>

---------------------------------------------------------------------------
(* Properties of rate_history *)

\* C25: rate_history never holds more than 60 entries; a successful poll
\* result applied when it holds 60 removes the oldest entry and appends the
\* new total at the end, the other entries keeping their order; a failed
\* result leaves it as it is.
C25_RateHistoryBounded ==
    [][/\ Len(app.rate_history) <= 60 /\ Len(app'.rate_history) <= 60
       /\ (SuccessfulResultStep /\ Len(app.rate_history) = 60) =>
             app'.rate_history =
                 Tail(app.rate_history) \o <<RatToU64(TotalClusterRate(app'))>>
       /\ (SuccessfulResultStep /\ Len(app.rate_history) < 60) =>
             app'.rate_history =
                 app.rate_history \o <<RatToU64(TotalClusterRate(app'))>>
       /\ FailedResultStep => app'.rate_history = app.rate_history]_vars

\* C25 witness: rate_history holds 60 entries of which the oldest, the 0 of
\* the first poll, is gone: the first is the 1 of the second poll, the last
\* the 5 of the latest
C25_Witness ==
    /\ Len(app.rate_history) = 60
    /\ app.rate_history[1] = 1 /\ app.rate_history[59] = 5 /\ app.rate_history[60] = 5

---------------------------------------------------------------------------
(* Properties of the re-arming of the poll *)

\* a step that spawns a poll task
PollStartedStep == Len(poll_tasks') > Len(poll_tasks)

\* C26: a new poll is started only in states where paused is false,
\* loading is false, and either no poll result has been applied yet or at
\* least refresh_interval has elapsed since the last applied result; while
\* paused no new poll is ever started.
C26_PollStartsOnlyWhenDue ==
    [][PollStartedStep =>
          /\ ~app.paused
          /\ ~app.loading
          /\ \/ app.last_refresh = None
             \/ app.last_refresh[1] >= app.refresh_interval]_vars

\* C26 witness: the loop is paused with a poll long due and none in flight:
\* only the first poll has been started
C26_Witness ==
    /\ pc = "loop" /\ app.running
    /\ app.paused /\ ~app.loading
    /\ app.last_refresh = Some(MaxAge)
    /\ polls = 1 /\ poll_tasks = <<>>

---------------------------------------------------------------------------
(* Properties of the refresh interval *)

\* C27: for every configured initial refresh value and every sequence of
\* IncreaseRefreshRate / DecreaseRefreshRate actions, refresh_interval is at
\* least 1 second and at most 60 seconds.
C27_RefreshIntervalInBounds ==
    1 <= app.refresh_interval /\ app.refresh_interval <= 60

---------------------------------------------------------------------------
(* Properties of the input modes *)

\* the key codes that close or scroll the help overlay, and the details
\* overlay
HelpLiveCodes == {"Esc", "q", "?", "Enter", "Up", "k", "Down", "j"}
DetailsLiveCodes == {"Esc", "Enter", "q", "Up", "k", "Down", "j", "PageUp", "PageDown"}

\* C28: while the help overlay is open, every key other than its close and
\* scroll keys leaves the whole state unchanged; while the details overlay
\* is open and help is closed, every key other than its close and scroll
\* keys leaves the state unchanged: no navigation, exclusion, sort, filter
\* edit, pause or quit under an overlay.
C28_OverlaysBlockOtherKeys ==
    [][\A key \in OverlayKeys :
          (/\ KeyPress(key)
           /\ \/ app.show_help_popup /\ key.code \notin HelpLiveCodes
              \/ /\ ~app.show_help_popup /\ app.details.show_popup
                 /\ key.code \notin DetailsLiveCodes)
          => UNCHANGED vars]_vars

\* C28 witness: the details overlay is open over the loaded list with its
\* row selected, nothing excluded, not paused and still running
C28_Witness ==
    /\ app.details.show_popup /\ ~app.show_help_popup
    /\ app.indices # <<>> /\ app.selected_index = Some(0)
    /\ app.excluded_indices = {} /\ ~app.paused /\ app.running
    /\ ~app.filter.active

\* the input mode, in the order in which map_key_to_action tests it
Mode(a) ==
    IF a.show_help_popup THEN "HelpOverlay"
    ELSE IF a.details.show_popup THEN "DetailOverlay"
    ELSE IF a.filter.active THEN "FilterEditing"
    ELSE "Normal"

\* the key codes that close the help overlay and the details overlay, and
\* leave the filter editor
CloseCodes(mode) ==
    IF mode = "HelpOverlay" THEN {"Esc", "q", "?", "Enter"}
    ELSE IF mode = "DetailOverlay" THEN {"Esc", "Enter", "q"}
    ELSE IF mode = "FilterEditing" THEN {"Esc", "Enter"}
    ELSE {}

\* C29: the input mode starts as Normal; from each of HelpOverlay,
\* DetailOverlay and FilterEditing the close or exit key leads back to
\* Normal; and running becomes false only through a quit key pressed in
\* Normal mode.
C29_ModesReturnToNormal ==
    /\ [](/\ pc = "start" => Mode(app) = "Normal"
          /\ \A key \in OverlayKeys :
                (/\ pc = "loop" /\ app.running
                 /\ key.code \in CloseCodes(Mode(app))) =>
                    ENABLED (KeyPress(key) /\ Mode(app') = "Normal"))
    /\ [][(app.running /\ ~app'.running) =>
             /\ Mode(app) = "Normal"
             /\ \E key \in {Key("q"), Key("Esc")} : KeyPress(key)]_vars

\* C29 witness: a filter text was typed, the editor was left, and q has
\* ended the loop from Normal mode
C29_Witness ==
    /\ ~app.running /\ Mode(app) = "Normal"
    /\ app.filter.input # <<>>

---------------------------------------------------------------------------
(* Properties of the exclusion toggle *)

\* App after the key x with the row at position i of the view selected
ExcludeAt(a, i) == ToggleExcludeSelected([a EXCEPT !.selected_index = Some(i)])

\* C30: ToggleExclude toggles the membership of the selected index in
\* excluded_indices: an index of the list that is not excluded and is shown
\* can be selected and becomes excluded, and an index that is excluded can
\* be selected and is removed from the set again.
C30_ExcludeTogglesMembership ==
    \A k \in DOMAIN app.indices :
        LET name == app.indices[k].name
            rows == 0..(Len(app.indices) - 1)
        IN /\ (name \notin app.excluded_indices /\ InView(app, app.indices[k])) =>
                 \E i \in rows :
                    ExcludeAt(app, i).excluded_indices = app.excluded_indices \cup {name}
           /\ name \in app.excluded_indices =>
                 \E i \in rows :
                    ExcludeAt(app, i).excluded_indices = app.excluded_indices \ {name}

---------------------------------------------------------------------------
(* Properties of the poll cycle as a unit *)

\* the first poll cycle has failed: its task holds a failure, or the
\* failure is in the channel, or it has been applied and no other poll
\* started since
FirstCycleFailed ==
    /\ polls = 1
    /\ \/ \E i \in DOMAIN poll_tasks :
             poll_tasks[i].st = "sending" /\ ~poll_tasks[i].res[1].ok
       \/ fetch_chan # <<>> /\ ~Head(fetch_chan).ok
       \/ poll_tasks = <<>> /\ fetch_chan = <<>> /\ app.error # None

\* C31: a poll cycle that is delivered as a failure, because either of its
\* requests failed, changes no state used by later rate computations: the
\* stored previous snapshot is the same as before the cycle.  Before the
\* first cycle the snapshot is None.
C31_FailedCycleKeepsSnapshot ==
    FirstCycleFailed => client.previous_snapshot = None

---------------------------------------------------------------------------
(* Properties of the alternation of polls and results *)

\* the polls started whose result has not been applied: their tasks and
\* the results in the channel
Outstanding == Len(poll_tasks) + Len(fetch_chan)

\* a step of run() in which poll_fetch_result receives a result
ResultAppliedStep == fetch_chan # <<>> /\ PollFetchResult

\* C32: starts and applications of the periodic poll strictly alternate: a
\* poll is started only when every earlier result has been applied, a
\* result is applied only for the one poll that is outstanding, nothing else
\* changes their number, the channel never holds more than one result, and
\* a task that is about to send finds the slot free.
C32_StartsAndResultsAlternate ==
    [][/\ Outstanding <= 1 /\ Outstanding' <= 1
       /\ Len(fetch_chan) <= 1 /\ Len(fetch_chan') <= 1
       /\ PollStartedStep => (Outstanding = 0 /\ Outstanding' = 1)
       /\ ResultAppliedStep => (Outstanding = 1 /\ Outstanding' = 0)
       /\ Outstanding' # Outstanding => (PollStartedStep \/ ResultAppliedStep)
       /\ \A i \in DOMAIN poll_tasks :
             poll_tasks[i].st = "sending" => Len(fetch_chan) < CHANNEL_CAPACITY]_vars

\* C32 witness: the result of the first poll has been applied and the
\* result of the second one waits in the channel
C32_Witness ==
    /\ polls = 2 /\ Len(app.rate_history) = 1
    /\ Len(fetch_chan) = 1 /\ poll_tasks = <<>>
    /\ app.loading

---------------------------------------------------------------------------
(* Properties of the sorted list *)

\* every adjacent pair of list is in the order of the comparator of st
OrderedBy(st, list) ==
    \A k \in 1..(Len(list) - 1) : SortCompare(st, list[k], list[k + 1]) # "Greater"

\* C33: after any sequence of successful poll results and sort actions the
\* stored list, and therefore the derived view, is ordered according to
\* the current sort setting.
C33_ListOrderedBySortSetting ==
    /\ OrderedBy(app.sort, app.indices)
    /\ OrderedBy(app.sort, FilteredIndices(app))

\* C33 witness: the four indices sorted by name, ascending: .s before a
C33_Witness ==
    /\ Len(app.indices) = 4
    /\ app.sort = [column |-> "Name", order |-> "Ascending"]
    /\ app.indices[1].name = NameSys /\ app.indices[4].name = NameC

---------------------------------------------------------------------------
(* Properties of the set of smoothing windows *)

\* the names for which a holds a smoothing window
Windowed(a) == {n \in Names : a.index_rate_history[n] # None}

\* the names of the indices of a poll result
NamesOf(result) == {result.indices[k].name : k \in DOMAIN result.indices}

\* C34: after every successful poll result the indices that have a
\* smoothing window are exactly the indices named in that poll; every
\* window holds between 1 and rate_samples values, rate_samples being at
\* least 1; and the window of an index that had none before the poll (a new
\* index, or one that was absent from the poll before) holds one value.
C34_WindowsFollowThePoll ==
    [][SuccessfulResultStep =>
        LET names == NamesOf(Head(fetch_chan))
        IN /\ app'.rate_samples >= 1
           /\ Windowed(app') = names
           /\ \A n \in names :
                 /\ Len(WindowOf(app', n)) \in 1..app'.rate_samples
                 /\ n \notin Windowed(app) => Len(WindowOf(app', n)) = 1]_vars

\* C34 witness: --rate-samples 2; b was polled, then absent, then polled
\* again: its window holds one value while that of a holds two
C34_Witness ==
    /\ app.rate_samples = 2 /\ Len(app.rate_history) = 3
    /\ Windowed(app) = {NameA, NameB}
    /\ Len(WindowOf(app, NameA)) = 2 /\ Len(WindowOf(app, NameB)) = 1

---------------------------------------------------------------------------
(* The frame of the handlers: two polls of a cluster that loses index b,    *)
(* with the keys that exclude, select, sort and filter between them.        *)

\* exclude, clear the exclusions, select, change the sort, edit the filter
FrameKeys ==
    {Key("x"), Key("X"), Key("Down"), Key("Right"), Key("r"), Key("/"), Key("a"),
     Key("Esc")}

NextFrame ==
    \/ RunStart(Some(MaxPolls))
    \/ RefreshStep(Some(MaxPolls))
    \/ PollFetchResult
    \/ PollTaskStep(PollResponses)
    \/ \E key \in FrameKeys : KeyPress(key)
    \/ Tick

SpecFrame == InitPoll /\ [][NextFrame]_vars

---------------------------------------------------------------------------
(* Properties of the frame of excluded_indices *)

\* a key press dispatched as ToggleExclude or as ClearExclusions
ExclusionKeyStep ==
    \E key \in {Key("x"), Key("X")} :
        /\ MapKeyToAction(app, key) \in {Some("ToggleExclude"), Some("ClearExclusions")}
        /\ KeyPress(key)

\* a key press dispatched as ClearExclusions
ClearExclusionsStep ==
    /\ MapKeyToAction(app, Key("X")) = Some("ClearExclusions")
    /\ KeyPress(Key("X"))

\* the names of the indices in the list of a
Listed(a) == {a.indices[k].name : k \in DOMAIN a.indices}

\* C35: excluded_indices is changed only by ToggleExclude and
\* ClearExclusions.  A poll result, successful or failed, leaves it as it
\* is, also when an excluded index is no longer in the poll; and the name
\* of an index that is gone from the list leaves the set only through
\* ClearExclusions.
C35_OnlyExclusionActionsChangeExclusions ==
    [][/\ app'.excluded_indices # app.excluded_indices => ExclusionKeyStep
       /\ (fetch_chan # <<>> /\ PollFetchResult) =>
             app'.excluded_indices = app.excluded_indices
       /\ \A n \in app.excluded_indices \ Listed(app) :
             n \notin app'.excluded_indices => ClearExclusionsStep]_vars

\* C35 witness: b was excluded after the first poll and is absent from the
\* second, whose result is applied: b is still excluded
C35_Witness ==
    /\ Len(app.rate_history) = 2
    /\ Listed(app) = {NameA}
    /\ NameB \in app.excluded_indices

---------------------------------------------------------------------------
(* Properties of leaving and clearing the filter *)

\* Esc in the filter editor, dispatched by run() as ExitFilterMode
ExitFilterStep ==
    /\ app.filter.active
    /\ MapKeyToAction(app, Key("Esc")) = None
    /\ KeyPress(Key("Esc"))

\* Ctrl-u, dispatched as ClearFilter
ClearFilterStep ==
    /\ MapKeyToAction(app, Ctrl("u")) = Some("ClearFilter")
    /\ KeyPress(Ctrl("u"))

\* C36: ExitFilterMode changes nothing but filter.active, which becomes
\* false: the text, the compiled predicate and the error are kept and the
\* view is the same as before.  ClearFilter empties the text, sets error
\* and predicate to None, so that every index matches, and sets
\* filter.active to false; it changes nothing outside the filter.
C36_ExitKeepsFilterClearResetsIt ==
    [][/\ ExitFilterStep =>
             /\ app' = [app EXCEPT !.filter.active = FALSE]
             /\ FilteredIndices(app') = FilteredIndices(app)
       /\ ClearFilterStep =>
             /\ app' = [app EXCEPT !.filter = [@ EXCEPT !.input = <<>>, !.error = None,
                                                        !.compiled = None, !.active = FALSE]]
             /\ \A k \in DOMAIN app.indices : IsMatch(app'.filter, app.indices[k])]_vars

\* C36 witness: the filter "a" was typed over the loaded list and the
\* editor left: the text and the predicate are kept and only a is shown
C36_Witness ==
    /\ ~app.filter.active
    /\ app.filter.input = <<97>> /\ app.filter.compiled # None
    /\ Listed(app) = {NameA, NameB, NameSys}
    /\ Len(FilteredIndices(app)) = 1

---------------------------------------------------------------------------
(* Properties of the column cycle *)

\* the columns in the order of the cycle
ColumnCycle == <<"Name", "DocCount", "Rate", "Size", "Health">>

\* C37: SortColumn::next and SortColumn::prev are inverse of each other and
\* walk the cycle Name, DocCount, Rate, Size, Health with wrap-around, so
\* that five applications of next (or of prev) return to the start;
\* SortOrder::toggle flips the order and applied twice is the identity.
\* Stated of every column and order, and of those of the current sort.
C37_ColumnCycleAndToggle ==
    /\ app.sort.column \in SortColumns
    /\ app.sort.order \in {"Ascending", "Descending"}
    /\ \A c \in SortColumns \cup {app.sort.column} :
          /\ SortColumnPrev(SortColumnNext(c)) = c
          /\ SortColumnNext(SortColumnPrev(c)) = c
          /\ SortColumnNext(SortColumnNext(SortColumnNext(SortColumnNext(SortColumnNext(c))))) = c
          /\ SortColumnPrev(SortColumnPrev(SortColumnPrev(SortColumnPrev(SortColumnPrev(c))))) = c
    /\ \A k \in 1..5 :
          /\ SortColumnNext(ColumnCycle[k]) = ColumnCycle[(k % 5) + 1]
          /\ SortColumnPrev(ColumnCycle[(k % 5) + 1]) = ColumnCycle[k]
    /\ \A o \in {"Ascending", "Descending", app.sort.order} :
          /\ SortOrderToggle(o) # o
          /\ SortOrderToggle(SortOrderToggle(o)) = o

\* C37 witness: the last column of the cycle, from which next wraps to
\* Name, in ascending order, over the loaded list
C37_Witness ==
    /\ app.sort = [column |-> "Health", order |-> "Ascending"]
    /\ Len(app.indices) = 4

---------------------------------------------------------------------------
(* Properties of the input modes taken together *)

\* how many of the three mode flags of a are set
ModeFlags(a) ==
    (IF a.show_help_popup THEN 1 ELSE 0) + (IF a.details.show_popup THEN 1 ELSE 0)
        + (IF a.filter.active THEN 1 ELSE 0)

\* C38: in every state reached through key dispatch at most one of
\* show_help_popup, details.show_popup and filter.active is true; hence a
\* key that map_key_to_action does not map while the help or the details
\* overlay is open never reaches the filter text input.
C38_OneModeAtATime ==
    /\ [](ModeFlags(app) <= 1)
    /\ [][\A key \in OverlayKeys :
             (/\ app.show_help_popup \/ app.details.show_popup
              /\ MapKeyToAction(app, key) = None
              /\ KeyPress(key))
             => app'.filter = app.filter]_vars

\* C38 witness: the help overlay is open over a filter that was typed and
\* left before: the text is kept and neither of the other two flags is set
C38_Witness ==
    /\ app.show_help_popup /\ ModeFlags(app) = 1
    /\ app.filter.input = <<97>>

---------------------------------------------------------------------------
(* Properties of the dashboard error *)

\* C39: error is Some exactly when the poll result applied last was a
\* failure: it is None until the first result, a failed result sets it, a
\* successful result clears it, and nothing else, no key press in
\* particular, changes it.
C39_ErrorFollowsLastResult ==
    /\ [](polls = 0 => app.error = None)
    /\ [][/\ FailedResultStep => app'.error # None
          /\ SuccessfulResultStep => app'.error = None
          /\ app'.error # app.error => (FailedResultStep \/ SuccessfulResultStep)
          /\ \A key \in FrameKeys : KeyPress(key) => app'.error = app.error]_vars

\* C39 witness: two polls were started and both results applied; one of
\* them succeeded, and error is None: the failure came first and the
\* success after it cleared the error
C39_Witness ==
    /\ polls = 2 /\ Outstanding = 0
    /\ Len(app.rate_history) = 1
    /\ app.error = None

---------------------------------------------------------------------------
(* Properties of the frame of the sort actions *)

\* C40: NextColumn, PrevColumn and ToggleSortOrder change only sort and the
\* order of indices: the indices are the same ones, and excluded_indices,
\* the filter, selected_index and every other field are as before, so that
\* the selected row number is kept whatever index is now in that row.
C40_SortActionsKeepTheRest ==
    [][ResortStep =>
        /\ app' = [app EXCEPT !.sort = app'.sort, !.indices = app'.indices]
        /\ app'.sort # app.sort
        /\ Len(app'.indices) = Len(app.indices)
        /\ Range(app'.indices) = Range(app.indices)
        /\ app'.selected_index = app.selected_index
        /\ app'.excluded_indices = app.excluded_indices
        /\ app'.filter = app.filter]_vars

\* C40 witness: the second row is selected and the list was re-sorted by
\* size, descending: b is first and a is in the selected row
C40_Witness ==
    /\ app.sort = [column |-> "Size", order |-> "Descending"]
    /\ app.selected_index = Some(1)
    /\ Len(app.indices) = 2 /\ app.indices[1].name = NameB
    /\ FilteredIndices(app)[2].name = NameA

====
